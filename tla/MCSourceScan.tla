---------------------------- MODULE MCSourceScan ----------------------------
(***************************************************************************)
(* A client of a service and of its base.  The client's file has a         *)
(* callback, includes and C functions; the service has a Mojom file and C  *)
(* functions in blocks that nest, end early or hold bodies; the base is a  *)
(* Rust file that may be missing or not readable.                          *)
(***************************************************************************)
EXTENDS SourceScan, TLC

MCManifest == <<"client", "service", "base">>
ClientFile  == <<"client", "c.cc">>
ServiceFile == <<"out", "gen", "service", "s.mojom">>
BaseFile    == <<"base", "lib.rs">>
MCModulePath ==
  [m \in ToSet(MCManifest) |-> IF m = "base" THEN <<"base">> ELSE <<>>]
MCModuleSources ==
  [m \in ToSet(MCManifest) |->
     CASE m = "client"  -> <<ClientFile>>
       [] m = "service" -> <<ServiceFile, ClientFile>>
       [] m = "base"    -> <<BaseFile>>]
MCDeps == {<<"client", "service">>, <<"client", "base">>, <<"base", "service">>}
MCWorkers == <<"w1", "w2">>

Blank == [comment |-> FALSE, bridge |-> FALSE, externC |-> FALSE, externFn |-> FALSE,
          defines |-> FALSE, semicolon |-> FALSE, opens |-> 0, closes |-> 0,
          name |-> NoName, fn |-> NoName, include |-> NoInclude, kinds |-> {}]
IncludeOf(path, made) ==
  [Blank EXCEPT !.comment = TRUE, !.include = [path |-> path, made |-> made]]
MojoInclude == IncludeOf(<<"service", "s.mojom">>, "mojo")
BaseHeader  == IncludeOf(<<"base", "lib.rs">>, "cxx")
BareInclude == IncludeOf(<<"c.cc">>, "")
BridgeInclude == [IncludeOf(<<"x", "s.mojom">>, "") EXCEPT !.bridge = TRUE]
Callback    == [Blank EXCEPT !.kinds = {"callback"}]
Observer    == [Blank EXCEPT !.kinds = {"observer"}, !.closes = 1]
OpenBlock   == [Blank EXCEPT !.externC = TRUE, !.opens = 1]
ExternDecl(n) == [Blank EXCEPT !.externC = TRUE, !.name = n, !.semicolon = TRUE]
CppDecl(n)  == [Blank EXCEPT !.name = n, !.semicolon = TRUE]
CppDef(n)   == [Blank EXCEPT !.name = n, !.defines = TRUE, !.opens = 1]
RustDef(n)  == [Blank EXCEPT !.externFn = TRUE, !.fn = n, !.name = n, !.defines = TRUE, !.opens = 1]
RustDecl(n) == [Blank EXCEPT !.fn = n, !.name = n, !.semicolon = TRUE]
Close       == [Blank EXCEPT !.closes = 1]
CloseTwo    == [Blank EXCEPT !.closes = 2]

File(lines) == [is |-> "file", lines |-> lines]

MCVariants ==
  ClientFile :>
    {File(<<MojoInclude, Callback, OpenBlock, CppDecl("f"), Close, CppDecl("g")>>),
     File(<<MojoInclude, BaseHeader, Callback, ExternDecl("g")>>),
     File(<<BridgeInclude, Observer, OpenBlock, CloseTwo, OpenBlock, CppDef("f"), CppDecl("g")>>)}
  @@ ServiceFile :>
    {File(<<OpenBlock, CppDef("f"), Close, CppDef("g"), CloseTwo>>),
     File(<<OpenBlock, Close, CppDef("f")>>),
     Missing}
  @@ BaseFile :>
    {File(<<OpenBlock, RustDecl("f"), CloseTwo, OpenBlock, RustDecl("g"), RustDef("h")>>),
     File(<<RustDef("g"), BareInclude, Callback>>),
     Missing, Locked}

MCFindings ==
  {f \in ({<<m>> : m \in ToSet(MCManifest)} \union MCDeps)
         \X (DOMAIN MCVariants) \X (1 .. 3) \X {"callback", "observer"} :
     /\ f[2] \in ToSet(MCModuleSources[f[1][1]])
     /\ \E v \in MCVariants[f[2]] : f[3] \in DOMAIN v.lines /\ f[4] \in v.lines[f[3]].kinds}
=============================================================================
