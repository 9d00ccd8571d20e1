---------------------------- MODULE MCCandidates ----------------------------
(***************************************************************************)
(* Three modules below net.  ScanOnly is scanned while a file is edited;   *)
(* WayOut has a source that leads out of the checkout; Ranked is scanned   *)
(* undisturbed and then ranked with everything a maintainer may have       *)
(* written into the manifest.  net/core and net-core are one word to the   *)
(* identifiers of components.                                              *)
(***************************************************************************)
EXTENDS Candidates

MCModules == {"url", "sys", "api"}
MCIds == <<"url", "sys", "api">>
MCDeps == {<<"sys", "url">>, <<"url", "api">>}
MCRequired == {"linux"}
MCGateTargets == [g \in {"unit", "browser"} |-> IF g = "browser" THEN {"linux"} ELSE {}]
MCDepth == 2

UrlSource == <<"net", "a.cc">>
SysSource == <<".", "net", "b.h">>
ApiSource == <<"main.cc">>
ScanOnly == << <<UrlSource, SysSource>>, <<>>, <<ApiSource>> >>
WayOut   == << <<UrlSource>>, <<>>, << <<"net", "..", "..", "main.cc">> >> >>
Ranked   == << <<UrlSource, ApiSource>>, <<SysSource>>, <<UrlSource>> >>
MCManifests == {ScanOnly, WayOut, Ranked}
MCMaxEdits == [ms \in MCManifests |-> IF ms = ScanOnly THEN 1 ELSE 0]

RootOwners == <<"OWNERS">>
NetOwners  == <<"net", "OWNERS">>
Team       == <<"build", "TEAM">>
MCFiles == {RootOwners, NetOwners, Team}

MCSpell ==
  [n \in {"a.cc", "b.h", "main.cc", "net"} |->
     CASE n = "a.cc"    -> <<"a", ".", "c">>
       [] n = "b.h"     -> <<"b", ".", "h">>
       [] n = "main.cc" -> <<"m", ".", "c">>
       [] n = "net"     -> <<"n">>]

Who(o) == <<"owner", o>>
Include(rooted, external, names) ==
  <<"include", [rooted |-> rooted, external |-> external, names |-> names]>>
ToTeam    == Include(TRUE, FALSE, Team)
UpTeam    == Include(FALSE, FALSE, <<"..">> \o Team)
UpUpTeam  == Include(FALSE, FALSE, <<"..", "..">> \o Team)
ToRoot    == Include(TRUE, FALSE, RootOwners)
ToNet     == Include(FALSE, FALSE, <<"..">> \o NetOwners)
Elsewhere == Include(TRUE, TRUE, <<"other">>)
Plain(ds) == <<"plain", ds>>
PerFile(ps, ds) == <<"per-file", ps, ds>>
NoParent == <<"noparent">>
StarC == <<"*", ".", "c">>
Deep  == <<"...", "c">>
Below == <<"?", "/", "a", "*">>

MCVariants ==
  [f \in MCFiles |->
     CASE f = RootOwners ->
            {Absent,
             <<Plain(<<Who("lead")>>)>>,
             <<Plain(<<ToTeam>>), Plain(<<Who("root")>>)>>,
             <<PerFile(<<StarC>>, <<Who("cc")>>), PerFile(<<Below>>, <<ToTeam>>)>>}
       [] f = NetOwners ->
            {Absent,
             <<Plain(<<UpTeam, Elsewhere>>), NoParent>>,
             <<Plain(<<Who("net")>>), PerFile(<<StarC>>, <<NoParent>>),
               PerFile(<<Deep>>, <<UpTeam>>)>>,
             <<Plain(<<UpTeam, ToTeam>>), Plain(<<ToRoot>>)>>,
             <<Plain(<<Who("net"), UpUpTeam>>)>>}
       [] f = Team ->
            {Absent,
             <<Plain(<<Who("team"), Who("lead")>>)>>,
             <<Plain(<<ToNet>>)>>,
             << <<"bad">> >>,
             <<Plain(<<ToRoot>>), NoParent>>}]

MCWords ==
  [n \in {"net", "core", "net-core", "public", "net team", "team", "lead",
          "root", "cc", "url", "sys", "api", "third_party", "blink_public"} |->
     CASE n = "net-core" -> <<"net", "core">>
       [] n = "net team" -> <<"net", "team">>
       [] OTHER          -> <<n>>]

MCBlink == {"blink", "blink_public"}

\* What a maintainer may have written; Rust-owned modules have a gate.
Base ==
  [path  |-> "url" :> <<"net", "core">> @@ "sys" :> <<"net-core">> @@ "api" :> <<>>,
   label |-> "url" :> <<>> @@ "sys" :> <<>> @@ "api" :> <<"net", "core", "public">>,
   owner |-> [m \in MCModules |-> IF m = "sys" THEN "net team" ELSE "lead"]]

MCRanked ==
  {Base @@ [state |-> s, boundary |-> b, reviews |-> r, open |-> o, gates |-> g] :
     s \in {"url" :> "legacy_cpp" @@ "sys" :> x @@ "api" :> y :
              x \in {"legacy_cpp", "rust_owned"}, y \in {"legacy_cpp", "rust_owned"}},
     b \in [MCDeps -> {"cpp_internal", "cxx"}],
     r \in {[m \in MCModules |-> IF m = "sys" THEN n ELSE 0] : n \in {0, 1}},
     o \in {[d \in MCDeps |-> IF d[1] = "sys" THEN n ELSE 0] : n \in {0, 2}},
     g \in {"url" :> {"unit"} @@ "sys" :> {"browser"} @@ "api" :> {"browser"},
            "url" :> {"unit", "browser"} @@ "sys" :> {"unit"} @@ "api" :> {"browser"},
            "url" :> {} @@ "sys" :> {"browser"} @@ "api" :> {"unit"},
            [m \in MCModules |-> {"browser"}]}}

\* A Rust-owned border inside: the label rust joins Rust-owned modules only.
\* The third module belongs to a runtime that is to come last.
MCNative ==
  {[Base EXCEPT !.label["api"] = <<"third_party", "blink_public">>] @@
     [state    |-> [m \in MCModules |-> IF m = "api" THEN "legacy_cpp" ELSE "rust_owned"],
      boundary |-> [d \in MCDeps |-> IF d[1] = "sys" THEN "rust" ELSE b],
      reviews  |-> [m \in MCModules |-> 0], open |-> [d \in MCDeps |-> 0],
      gates    |-> [m \in MCModules |-> {"browser"}]] : b \in {"cpp_internal", "cxx"}}

ASSUME MCNativeManifests == MCRequired # {} /\ NativeManifests

MCRests ==
  [ms \in MCManifests |-> IF ms = Ranked THEN MCRanked \union MCNative ELSE {CHOOSE r \in MCRanked : TRUE}]

LinesOf(covered, count) == [covered |-> covered, count |-> count]
MCReports ==
  [ms \in MCManifests |->
     IF ms # Ranked THEN {NoReport}
     ELSE {NoReport,
           UrlSource :> LinesOf(1, 1) @@ ApiSource :> LinesOf(0, 0),
           UrlSource :> LinesOf(29999, 30000) @@ ApiSource :> LinesOf(2, 2)
             @@ SysSource :> LinesOf(7, 7)}]
=============================================================================
