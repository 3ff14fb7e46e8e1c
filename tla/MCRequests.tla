------------------------------ MODULE MCRequests ------------------------------
(*****************************************************************************)
(* Small instances of comps groups, module streams and a shell session.      *)
(*****************************************************************************)
EXTENDS Requests, TLC

CONSTANTS
  foo, bar, baz,              \* names of packages
  p1, p2, x1, x2, x3, m, n,   \* profiles (and packages of groups), packages, modules
  A, B, E,                    \* groups and an environment
  r1, r2                      \* repositories

------------------------------------------------------------------------------
(* Two groups that share a package, in one environment, and the comps data *)
(* before and after a change.                                              *)
Types(s, t) == (p1 :> s) @@ (p2 :> t)
Data(ofA, ofB, inA, inB) ==
  [group |-> (A :> ofA) @@ (B :> ofB), env |-> (E :> ((A :> inA) @@ (B :> inB)))]
MCCompsData ==
  {Data(Types("mandatory", "no"), Types("mandatory", "optional"), "mandatory", "optional"),
   Data(Types("no", "mandatory"), Types("mandatory", "optional"), "mandatory", "mandatory")}
MCCompsSeeds == {Types("unknown", "unknown"), Types("user", "group"), Types("group", "unknown")}

------------------------------------------------------------------------------
(* m has two streams whose profiles share packages, n depends on one of them, and *)
(* shares a package with it.                                                   *)
MCStreams == (m :> {"1", "2"}) @@ (n :> {"1"})
MCDefault == (m :> "1") @@ (n :> "none")
m1 == <<m, "1">>
m2 == <<m, "2">>
n1 == <<n, "1">>
Both(s, t) == (p1 :> s) @@ (p2 :> t)
Each(s, t, u) == (m1 :> s) @@ (m2 :> t) @@ (n1 :> u)
MCContents == Each(Both({x1}, {x1, x2}), Both({x2}, {}), Both({x3}, {}))
MCDefaultProfiles == Each({p1}, {}, {p1})
MCArtifacts == Each({x1, x2}, {x2, x3}, {x3})
MCStreamRequires == Each({}, {}, {m2})
MCFailSafes == {{}, {m2}}
MCArguments == {[name |-> s[1], stream |-> s[2], profile |-> s[3]] :
                  s \in {<<m, "any", "any">>, <<m, "1", p2>>, <<m, "any", p1>>, <<m, "2", "any">>,
                         <<n, "any", "any">>}}

------------------------------------------------------------------------------
(* Three names, two of them in conflict, one required by another and obsoleted *)
(* by the newer version of the third; the second repository has newer packages. *)
MCContent == (r1 :> {<<foo, 1>>, <<baz, 1>>}) @@ (r2 :> {<<foo, 2>>, <<bar, 1>>})
MCObsoletes == [k \in {foo, bar, baz} \X {1, 2} |-> IF k = <<foo, 2>> THEN {baz} ELSE {}]
MCRequires == (foo :> {}) @@ (bar :> {baz}) @@ (baz :> {})
MCConflicts == {<<foo, bar>>}
MCSecure == {<<foo, 2>>}
MCSeeds == {{<<baz, 1>>}, {<<foo, 1>>, <<baz, 1>>}}
==============================================================================
