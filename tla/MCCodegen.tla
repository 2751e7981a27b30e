------------------------------ MODULE MCCodegen ------------------------------
(* TLC instances of Codegen: two designs of one name, one scenario a tier, *)
(* a request in Java for two tiers, then its retry for one of them (or     *)
(* first another design in Node), and the HTTP endpoint.                   *)
EXTENDS Codegen, TLC

CONSTANTS r1, r2, c1, d1, d2, java, node, easy, hard, g1, g2

OneName  == [d \in Design |-> c1]
MCTierOf == g1 :> easy @@ g2 :> hard
MCChecks == java :> "tests" @@ node :> "installs"

Asking(kind, design, lang, tiers) ==
  [kind |-> kind, design |-> design, langs |-> {lang}, tiers |-> tiers]

Others == {Asking("DESIGN_PREVIEW", None, java, {}), Asking("OTHER", None, java, {})}
MCAsks == r1  :> {Asking("FULL_GENERATE", d1, java, Tier),
                  Asking("FULL_GENERATE", d2, node, {easy})} \cup Others
       @@ r2  :> {Asking("FULL_GENERATE", d1, java, {easy})} \cup Others
       @@ Api :> {Asking("FULL_GENERATE", None, java, {easy})}
=============================================================================
