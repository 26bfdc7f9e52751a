--------------------------- MODULE MCPluginLoader ---------------------------
(***************************************************************************)
(* Values for the constants of PluginLoader.  p1 declares compute, p2 adds *)
(* fs.write, p3 changes the value of its declaration; t1 and t2 are        *)
(* releases of a plugin that declares runtime.trust trusted.               *)
(***************************************************************************)
EXTENDS PluginLoader, TLC

CONSTANTS p1, p2, p3, t1, t2, compute, write, writeAny

MCPkgVersion == (p1 :> "1") @@ (p2 :> "2") @@ (p3 :> "3") @@ (t1 :> "1") @@ (t2 :> "2")
MCVersion    == {"1", "2", "3"}
MCDeclName   == (compute :> "compute") @@ (write :> "fs.write") @@ (writeAny :> "fs.write")
MCDeclares   == (p1 :> {compute}) @@ (p2 :> {compute, write}) @@ (p3 :> {compute, writeAny})
                @@ (t1 :> {compute}) @@ (t2 :> {compute, write})

\* PkgVersion and Declares over the packages of the run.
MCPkgVersionOf == [k \in Pkg |-> MCPkgVersion[k]]
MCDeclaresOf   == [k \in Pkg |-> MCDeclares[k]]
MCDeclNameOf   == [d \in Decl |-> MCDeclName[d]]

\* Processes are interchangeable in the invariants.
ProcSymmetry == Permutations(Proc)
=============================================================================
