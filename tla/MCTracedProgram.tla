-------------------------- MODULE MCTracedProgram --------------------------
(* The instance of TracedProgram: one thread with four traced calls, or    *)
(* two threads with three between them.                                    *)
EXTENDS TracedProgram

CONSTANTS main, helper, f, c

Programs == {(main :> 4) @@ (helper :> 0), (main :> 2) @@ (helper :> 1)}

=============================================================================
