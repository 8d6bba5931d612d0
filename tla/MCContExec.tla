----------------------------- MODULE MCContExec -----------------------------
(***************************************************************************)
(* Two threads on one Singularity instance, one terminal, two containers.  *)
(***************************************************************************)
EXTENDS ContExec
CONSTANTS t1, t2, c1, c2

OneAndTwo == (t1 :> 1) @@ (t2 :> 2)
SomeContents == (t1 :> {<<>>}) @@ (t2 :> {<<"dollar", "a">>})
=============================================================================
