------------------------------ MODULE MCGnImport ------------------------------
(***************************************************************************)
(* An application, two targets that may have sources and may be circular,  *)
(* and a library whose label has its toolchain and whose short name is     *)
(* used; it may be ambiguous, and there is a name that nothing has.        *)
(***************************************************************************)
EXTENDS GnImport, TLC

App   == <<"app", "">>
One   == <<"one", "">>
Two   == <<"two", "">>
Lib   == <<"lib", "default">>
Other == <<"lib", "other">>
Short == <<"lib", "">>
Gone  == <<"gone", "">>

MCNames   == {App, One, Two, Lib, Other, Short, Gone}
MCTargets == {App, One, Two, Lib, Other}

\* The toolchain of Other, as its target says.
MCProjects ==
  {[targets |-> MCTargets, testonly |-> {Two}, toolchain |-> [l \in MCTargets |->
        IF l = Other THEN other ELSE ""],
    kind |-> (App :> "cpp" @@ One :> k1 @@ Two :> k2 @@ Lib :> "rust" @@ Other :> "cpp"),
    deps |-> (App :> a @@ One :> b @@ Two :> c @@ Lib :> d @@ Other :> {})] :
      other \in {"", "default"},
      k1 \in {"rust_meta", "mixed"}, k2 \in {"meta", "cpp"},
      a \in SUBSET {One, Two, Short}, b \in SUBSET {Two, Short, Gone},
      c \in SUBSET {One, Lib}, d \in {{}, {Other}, {Two}, {App, Other}}}

Choice(roots, wide, meta, gate) ==
  [roots |-> roots, toolchains |-> wide, testonly |-> wide, meta |-> meta,
   infer |-> TRUE, gate |-> gate]

MCOptions == {Choice({App}, FALSE, FALSE, TRUE), Choice({App, Short}, TRUE, FALSE, TRUE),
              Choice({App}, TRUE, TRUE, FALSE), Choice({}, FALSE, FALSE, TRUE),
              Choice({Two}, FALSE, FALSE, FALSE)}
=============================================================================
