----------------------------- MODULE OwnersScan -----------------------------
(***************************************************************************)
(* scan-owners of chromifer-owners: for every source of a manifest it      *)
(* walks up the directories of a checkout, reads the OWNERS files it meets *)
(* and the files they include, each at most once, and collects who owns    *)
(* the source.  The files are edited and removed while it runs.            *)
(*                                                                         *)
(* A path is a sequence of names.  A file is the sequence of its lines, a  *)
(* line what parse_owners makes of it; Spell gives the characters of a     *)
(* name to the patterns of per-file rules.                                 *)
(***************************************************************************)
EXTENDS Naturals, Sequences, FiniteSets, SequencesExt

CONSTANTS
  Manifests,       \* manifests to scan: modules, each the list of its sources
  Files,           \* the paths at which an OWNERS file may be
  Variants,        \* Variants[f]: what may be found at f
  Spell,           \* Spell[n]: the characters of the name n
  MaxEdits         \* bound on edits and removals while a manifest is scanned

IsList(s) == s \in Seq(ToSet(s))

ASSUME OwnersAssumption ==
  /\ IsFiniteSet(Files)
  /\ \A ms \in Manifests :
       /\ IsList(ms)
       /\ \A sources \in ToSet(ms) :
            /\ IsList(sources)
            /\ \A names \in ToSet(sources) :
                 /\ IsList(names)
                 /\ \A n \in ToSet(names) \ {".", ".."} : IsList(Spell[n])
  /\ \A f \in Files : \A lines \in Variants[f] :
       /\ IsList(lines)
       /\ \A line \in ToSet(lines) :
            /\ line[1] = "plain" => IsList(line[2])
            /\ line[1] = "per-file" =>
                 /\ IsList(line[2]) /\ IsList(line[3])
                 /\ \A pattern \in ToSet(line[2]) : IsList(pattern)

Absent == << <<"absent">> >>

VARIABLES
  modules,   \* the manifest that is scanned
  tree,      \* what is at each path: lines, or Absent
  edits,     \* how many edits there were
  moved,     \* whether a file appeared or disappeared
  parsed,    \* Resolver.parsed: path -> what the scan read there, or Absent
  dir,       \* the directory the walk has come to
  frames,    \* the include stack, each file with its directives to do
  layer,     \* LayerOwnership of the OWNERS file at the bottom of the stack
  walk,      \* what resolve_source has of the present source
  result,    \* the SourceOwnership of every finished source, in order
  status     \* the next step, or how the scan ended

scan == <<parsed, dir, frames, layer, walk, result, status>>
world == <<modules, tree, edits, moved>>
vars == <<world, scan>>

-----------------------------------------------------------------------------
\* Paths.

\* normalize_join: base with names appended, or <<"..">> when they lead out.
NormalizeJoin(base, names) ==
  FoldLeft(LAMBDA path, n :
             IF path = <<"..">> \/ n = "." THEN path
             ELSE IF n # ".." THEN Append(path, n)
             ELSE IF path = <<>> THEN <<"..">> ELSE Front(path), base, names)

\* normalize_repo_relative_path, or <<>> when it refuses the source.
NormalSource(names) ==
  LET kept[i \in 0 .. Len(names)] ==
        IF i = 0 THEN <<>>
        ELSE IF names[i] = "." THEN kept[i - 1] ELSE Append(kept[i - 1], names[i])
  IN  IF Contains(names, "..") THEN <<>> ELSE kept[Len(names)]

OwnersIn(d) == Append(d, "OWNERS")

\* A path below directory d, as the characters of its text.
ScopedText(path, d) ==
  LET names == SubSeq(path, Len(d) + 1, Len(path))
  IN  FlattenSeq([i \in DOMAIN names |->
        IF i = 1 THEN Spell[names[i]] ELSE <<"/">> \o Spell[names[i]]])

-----------------------------------------------------------------------------
\* Patterns of per-file rules: sequences of characters, "?", "*" and "...".

\* row[i]: the tokens so far match the first i characters; the row after one
\* token more.
NextRow(token, text, row) ==
  LET next[i \in 0 .. Len(text)] ==
        IF i = 0 THEN token \in {"*", "..."} /\ row[0]
        ELSE CASE token = "..." -> row[i] \/ next[i - 1]
               [] token = "*"   -> row[i] \/ (text[i] # "/" /\ next[i - 1])
               [] token = "?"   -> text[i] # "/" /\ row[i - 1]
               [] OTHER         -> text[i] = token /\ row[i - 1]
  IN  next

GlobMatches(pattern, text) ==
  FoldLeft(LAMBDA row, token : NextRow(token, text, row),
           [i \in 0 .. Len(text) |-> i = 0], pattern)[Len(text)]

-----------------------------------------------------------------------------
\* Files.  A line is <<"noparent">>, <<"per-file", patterns, directives>>,
\* <<"plain", directives>> or <<"bad">>; a directive is <<"owner", who>>,
\* <<"include", where>> or <<"noparent">>.

\* parse_owners.
Global(lines) ==
  FlattenSeq([i \in DOMAIN lines |->
    IF lines[i][1] = "plain" THEN lines[i][2] ELSE <<>>])

GlobalNoParent(lines) == Contains(lines, <<"noparent">>)

Parses(lines) == ~ Contains(lines, <<"bad">>)

\* The directives of the per-file rules of lines that match text.
Matched(lines, text) ==
  FlattenSeq([i \in DOMAIN lines |->
    IF lines[i][1] # "per-file" THEN <<>>
    ELSE FlattenSeq([k \in DOMAIN lines[i][2] |->
           IF GlobMatches(lines[i][2][k], text) THEN lines[i][3] ELSE <<>>])])

\* Slip: a per-file noparent leaves the general entries of its file.
Applicable_KeepsGlobal(lines, text) == Global(lines) \o Matched(lines, text)

\* evaluate_owner_file: what applies to a source in this file.
Applicable(lines, text) ==
  LET matched == Matched(lines, text)
  IN  IF Contains(matched, <<"noparent">>) THEN matched
      ELSE Global(lines) \o matched

StopsAt(lines, text) ==
  GlobalNoParent(lines) \/ Contains(Matched(lines, text), <<"noparent">>)

\* resolve_include: an include is [rooted, external, names].
Target(file, where) ==
  NormalizeJoin(IF where.rooted THEN <<>> ELSE Front(file), where.names)

-----------------------------------------------------------------------------
\* The scan.

Queue == FlattenSeq(modules)
Present(f) == f \in Files /\ tree[f] # Absent
Failures == {"path", "unreadable", "syntax", "missing", "cycle"}
Ended == status \in Failures \union {"done"}

NoLayer == [owners |-> {}, files |-> {}, unresolved |-> {}, stops |-> FALSE]
NoWalk  == [primary |-> {}, effective |-> {}, files |-> {}, unresolved |-> {}]

\* The checkout is there: without one scan_ownership ends before it reads
\* anything (InvalidSourceRoot).
Init ==
  /\ modules \in Manifests
  /\ tree \in [Files -> UNION {Variants[f] : f \in Files}]
  /\ \A f \in Files : tree[f] \in Variants[f]
  /\ edits = 0
  /\ moved = FALSE
  /\ parsed = [f \in Files |-> Absent]
  /\ dir = <<>>
  /\ frames = <<>>
  /\ layer = NoLayer
  /\ walk = NoWalk
  /\ result = <<>>
  /\ status = "next"

\* scan_ownership takes up the next source of the manifest.
NextSource ==
  /\ status = "next"
  /\ IF Len(result) = Len(Queue)
       THEN status' = "done" /\ UNCHANGED <<dir, walk>>
       ELSE LET source == NormalSource(Queue[Len(result) + 1])
            IN  IF source = <<>>
                  THEN status' = "path" /\ UNCHANGED <<dir, walk>>
                  ELSE /\ status' = "look"
                       /\ dir' = Front(source)
                       /\ walk' = NoWalk
  /\ UNCHANGED <<parsed, frames, layer, result, world>>

Source == NormalSource(Queue[Len(result) + 1])

\* Slip: the walk goes up without asking whether it is at the top.
Leave_NeverAtTop(found, stop) ==
  IF stop
    THEN /\ result' = Append(result, found)
         /\ status' = "next"
         /\ UNCHANGED dir
    ELSE /\ dir' = IF dir = <<>> THEN dir ELSE Front(dir)
         /\ status' = "look"
         /\ UNCHANGED result

\* The walk goes on above dir, or the source is finished.
Leave(found, stop) ==
  IF stop \/ dir = <<>>
    THEN /\ result' = Append(result, found)
         /\ status' = "next"
         /\ UNCHANGED dir
    ELSE /\ dir' = Front(dir)
         /\ status' = "look"
         /\ UNCHANGED result

\* resolve_source: is there an OWNERS file in this directory?
Look ==
  /\ status = "look"
  /\ IF Present(OwnersIn(dir))
       THEN status' = "open" /\ UNCHANGED <<dir, result>>
       ELSE Leave(walk, FALSE)
  /\ UNCHANGED <<parsed, frames, layer, walk, world>>

\* What parse_file has of f: what it read there first.
Cached(f) == IF parsed[f] # Absent THEN parsed[f] ELSE tree[f]

ReadError(f) == Cached(f) = Absent \/ ~ Parses(Cached(f))

ReadFails(f) ==
  /\ ReadError(f)
  /\ status' = IF Cached(f) = Absent THEN "unreadable" ELSE "syntax"
  /\ UNCHANGED <<parsed, frames, layer>>

\* evaluate_owner_file reads it and begins its layer.
Open ==
  /\ status = "open"
  /\ \E f \in {OwnersIn(dir)}, text \in {ScopedText(Source, dir)} :
       \/ ReadFails(f)
       \/ /\ ~ ReadError(f)
          /\ parsed' = [parsed EXCEPT ![f] = Cached(f)]
          /\ frames' = <<[file |-> f, todo |-> Applicable(Cached(f), text)]>>
          /\ layer' = [NoLayer EXCEPT !.files = {f},
                                      !.stops = StopsAt(Cached(f), text)]
          /\ status' = "resolve"
  /\ UNCHANGED <<dir, walk, result, world>>

Top == frames[Len(frames)]

\* Slip: a file that was read before is taken for a circle.
OnStack_Known(f) == Present(f) /\ (parsed[f] # Absent \/ Top.file = f)

OnStack(f) == \E i \in DOMAIN frames : frames[i].file = f

\* resolve_directives, one directive.
Directive ==
  /\ status = "resolve"
  /\ Top.todo # <<>>
  /\ LET d      == Head(Top.todo)
         popped == [frames EXCEPT ![Len(frames)].todo = Tail(@)]
         target == Target(Top.file, d[2])
     IN  \/ /\ d[1] = "owner"
            /\ layer' = [layer EXCEPT !.owners = @ \union {d[2]}]
            /\ frames' = popped
            /\ UNCHANGED status
         \/ /\ d[1] = "noparent"
            /\ frames' = popped
            /\ UNCHANGED <<layer, status>>
         \/ /\ d[1] = "include" /\ d[2].external
            /\ layer' = [layer EXCEPT !.unresolved = @ \union {<<Top.file, d[2]>>}]
            /\ frames' = popped
            /\ UNCHANGED status
         \/ /\ d[1] = "include" /\ ~ d[2].external
            /\ ~ Present(target) \/ OnStack(target)
            /\ status' = IF Present(target) THEN "cycle" ELSE "missing"
            /\ UNCHANGED <<frames, layer>>
         \/ /\ d[1] = "include" /\ ~ d[2].external
            /\ Present(target) /\ ~ OnStack(target)
            /\ frames' = Append(popped, [file |-> target, todo |-> <<>>])
            /\ status' = "read"
            /\ UNCHANGED layer
  /\ UNCHANGED <<parsed, dir, walk, result, world>>

\* The included file is read; of its rules only the general ones count.
ReadIncluded ==
  /\ status = "read"
  /\ LET f == Top.file
     IN  \/ ReadFails(f)
         \/ /\ ~ ReadError(f)
            /\ parsed' = [parsed EXCEPT ![f] = Cached(f)]
            /\ frames' = [frames EXCEPT ![Len(frames)].todo = Global(Cached(f))]
            /\ layer' = [layer EXCEPT !.files = @ \union {f}]
            /\ status' = "resolve"
  /\ UNCHANGED <<dir, walk, result, world>>

\* A nested resolve_directives returns to its caller.
Return ==
  /\ status = "resolve"
  /\ Top.todo = <<>> /\ Len(frames) > 1
  /\ frames' = Front(frames)
  /\ UNCHANGED <<parsed, dir, layer, walk, result, status, world>>

WithLayer ==
  [primary    |-> IF walk.primary = {} THEN layer.owners ELSE walk.primary,
   effective  |-> walk.effective \union layer.owners,
   files      |-> walk.files \union layer.files,
   unresolved |-> walk.unresolved \union layer.unresolved]

\* resolve_source takes up the finished layer.
EndLayer ==
  /\ status = "resolve"
  /\ Top.todo = <<>> /\ Len(frames) = 1
  /\ frames' = <<>>
  /\ walk' = WithLayer
  /\ Leave(WithLayer, layer.stops)
  /\ UNCHANGED <<parsed, layer, world>>

\* Somebody edits, removes or adds a file.
Edit(f, lines) ==
  /\ edits < MaxEdits[modules] /\ ~ Ended
  /\ tree[f] # lines
  /\ tree' = [tree EXCEPT ![f] = lines]
  /\ edits' = edits + 1
  /\ moved' = (moved \/ Absent \in {tree[f], lines})
  /\ UNCHANGED <<modules, scan>>

Step ==
  \/ NextSource \/ Look \/ Open \/ Directive
  \/ ReadIncluded \/ Return \/ EndLayer

Next == Step \/ \E f \in Files : \E lines \in Variants[f] : Edit(f, lines)

\* A running scan goes on; nothing says that anybody edits.
Spec == Init /\ [][Next]_vars /\ WF_vars(Step)

-----------------------------------------------------------------------------
\* summarize_module_ownership.

Owned(i) ==
  LET before == FoldLeft(LAMBDA n, m : n + Len(m), 0, SubSeq(modules, 1, i - 1))
  IN  {result[before + j] : j \in DOMAIN modules[i]}

PrimaryOwners(i) == UNION {o.primary : o \in Owned(i)}
Unresolved(i) == UNION {o.unresolved : o \in Owned(i)}

-----------------------------------------------------------------------------
\* What OWNERS files mean, read off the files at once.

\* The text is cut into one piece per token of the pattern.
Means(pattern, text) ==
  \E cut \in [0 .. Len(pattern) -> 0 .. Len(text)] :
    /\ cut[0] = 0 /\ cut[Len(pattern)] = Len(text)
    /\ \A i \in DOMAIN pattern :
         LET piece == SubSeq(text, cut[i - 1] + 1, cut[i])
         IN  /\ cut[i - 1] <= cut[i]
             /\ CASE pattern[i] = "..." -> TRUE
                  [] pattern[i] = "*"   -> ~ Contains(piece, "/")
                  [] pattern[i] = "?"   -> Len(piece) = 1 /\ piece # <<"/">>
                  [] OTHER              -> piece = <<pattern[i]>>

General(f) ==
  UNION {ToSet(line[2]) : line \in {l \in ToSet(Cached(f)) : l[1] = "plain"}}

Special(f, text) ==
  UNION {ToSet(line[3]) : line \in
    {l \in ToSet(Cached(f)) :
       l[1] = "per-file" /\ \E p \in ToSet(l[2]) : Means(p, text)}}

Says(f, text) ==
  Special(f, text) \union
    (IF <<"noparent">> \in Special(f, text) THEN {} ELSE General(f))

Stops(f, text) ==
  <<"noparent">> \in Special(f, text) \/ <<"noparent">> \in ToSet(Cached(f))

Included(f, directives) ==
  {Target(f, d[2]) : d \in {x \in directives : x[1] = "include" /\ ~ x[2].external}}

Readable(S) == {f \in S : Present(f) /\ Parses(Cached(f))}

\* The files that the files of S include, directly or not.
Reach(S) ==
  LET within[n \in 0 .. Cardinality(Files)] ==
        IF n = 0 THEN S
        ELSE within[n - 1] \union
             UNION {Included(f, General(f)) : f \in Readable(within[n - 1])}
  IN  within[Cardinality(Files)]

Sound(f, text) ==
  LET reached == Reach(Included(f, Says(f, text)))
  IN  /\ reached \subseteq Readable(reached)
      /\ f \notin reached
      /\ \A g \in reached : g \notin Reach(Included(g, General(g)))

Sources == {NormalSource(names) : names \in ToSet(Queue)}

\* The directories whose OWNERS file counts for a source.
Counting(source) ==
  LET dirs == {d \in {SubSeq(source, 1, n) : n \in 0 .. Len(source) - 1} :
                 Present(OwnersIn(d))}
  IN  {d \in dirs : \A e \in dirs : Len(e) > Len(d) =>
                      ~ Stops(OwnersIn(e), ScopedText(source, e))}

LayerOwners(source, d) ==
  LET f    == OwnersIn(d)
      says == Says(f, ScopedText(source, d))
  IN  {x[2] : x \in {y \in says \union
                 UNION {General(g) : g \in Reach(Included(f, says))} : y[1] = "owner"}}

Effective(source) == UNION {LayerOwners(source, d) : d \in Counting(source)}

Primary(source) ==
  LET own == {d \in Counting(source) : LayerOwners(source, d) # {}}
  IN  UNION {LayerOwners(source, d) :
               d \in {x \in own : \A e \in own : Len(e) <= Len(x)}}

-----------------------------------------------------------------------------
\* Properties

\* A scan that nobody moves files under finds the owners that the files as it
\* read them mean, however they include each other, in whatever order and with
\* whatever edits in between: the nearest directory with an owner is primary,
\* noparent ends the walk, a per-file noparent takes the general entries with
\* it (resolve_source, evaluate_owner_file, resolve_directives, glob_matches).
OwnersAsMeant ==
  ~ moved => \A k \in DOMAIN result : \A source \in {NormalSource(Queue[k])} :
    /\ result[k].effective = Effective(source)
    /\ result[k].primary = Primary(source)

\* A scan fails exactly when a source leads out of the checkout or an OWNERS
\* file that counts for one cannot be read, includes what does not exist, or
\* includes itself; a file that is included twice is no circle
\* (resolve_include, resolve_directives).
RefusedForAReason ==
  ~ moved /\ Ended =>
    (status # "done" <=>
       \E source \in Sources :
         \/ source = <<>>
         \/ \E d \in Counting(source) :
              \/ ~ Parses(Cached(OwnersIn(d)))
              \/ ~ Sound(OwnersIn(d), ScopedText(source, d)))

\* Includes that lead in circles end the scan, they never hold it.
ScanEnds == <>Ended
=============================================================================
