--------------------------- MODULE MCGatewayRequests ---------------------------
(***************************************************************************)
(* Two threads, a host that both ask for and a second one; rules that      *)
(* allow one of them, both, or one path with one method only.              *)
(***************************************************************************)
EXTENDS GatewayRequests, TLC

CONSTANTS h1, h2

Target(h, path, method) == [scheme |-> "https", host |-> h, port |-> 443, path |-> path, method |-> method]
Pattern(h, path, methods) == [scheme |-> "https", host |-> h, port |-> 443, path |-> path, methods |-> methods]
Both == {"GET", "POST"}
MCTargets  == {Target(h1, "/", "GET"), Target(h2, "/", "GET"), Target(h2, "/x", "POST")}
MCDeclared == {Pattern(h1, None, Both), Pattern(h2, None, Both)}
MCGrants   == {{}, {Pattern(h1, None, Both)}, {Pattern(h1, None, {"GET"}), Pattern(h2, "/x", {"POST"})}}
ThreadSymmetry == Permutations(Thread)
=============================================================================
