----------------------------- MODULE ProjectWalk -----------------------------
(***************************************************************************)
(* Which files an index call finds, and under which names it keeps them:   *)
(* the gitignore matcher, the walk of a directory, the paths of a call,    *)
(* the documents it drops, the project root, the settings of               *)
(* .stele-context.toml and the directory of the store.                     *)
(*                                                                         *)
(* A name is a sequence of characters, a path a sequence of names, and     *)
(* "." is a name of a path as the user spells it.                          *)
(***************************************************************************)
EXTENDS Integers, Sequences, SequencesExt, FiniteSetsExt

CONSTANTS Ordinal(_),     \* the code of a character
          Folded(_),   \* its lower case
          Unset,       \* None
          Skipped,     \* SKIP_DIRS
          Supported    \* the extensions of code, text and media

Slash == <<"/">>
Joined(path) == FoldLeft(LAMBDA text, name : IF text = <<>> THEN name ELSE text \o Slash \o name,
                         <<>>, path)
From(s, i) == SubSeq(s, i, Len(s))

-----------------------------------------------------------------------------
\* The rules of one .gitignore, a line a sequence of characters.

Trimmed(line) ==
    LET solid == {i \in DOMAIN line : line[i] # " "}
    IN  IF solid = {} THEN <<>> ELSE SubSeq(line, 1, Max(solid))
Comment(line) == line # <<>> /\ Trimmed(line)[Min({i \in DOMAIN line : line[i] # " "})] = "#"

\* The closing bracket of a class that opens at i, 0 without one: one right
\* after the opening (and the negation) does not close, and is in no class.
ClassBody(body, i) ==
    LET sign == IF i < Len(body) /\ body[i + 1] \in {"!", "^"} THEN 1 ELSE 0
    IN  i + 1 + sign + (IF i + sign < Len(body) /\ body[i + sign + 1] = "]" THEN 1 ELSE 0)
ClassEnd(body, i) ==
    LET closing == {j \in ClassBody(body, i)..Len(body) : body[j] = "]"}
    IN  IF closing = {} THEN 0 ELSE Min(closing)
Class(body, i) ==
    [kind |-> "class", negated |-> body[i + 1] \in {"!", "^"},
     chars |-> SubSeq(body, ClassBody(body, i), ClassEnd(body, i) - 1)]

Part(kind) == [kind |-> kind]
Literal(char) == [kind |-> "lit", char |-> char]

\* The part that begins at i, and where the next one does.
PartAt(body, i) ==
    LET starts(s) == IsPrefix(s, From(body, i))
    IN  CASE starts(<<"*", "*", "/">>) -> <<Part("below"), i + 3>>
          [] starts(<<"*", "*">>) /\ ~starts(<<"*", "*", "/">>) -> <<Part("any"), i + 2>>
          [] starts(<<"*">>) /\ ~starts(<<"*", "*">>) -> <<Part("star"), i + 1>>
          [] starts(<<"?">>) -> <<Part("one"), i + 1>>
          [] starts(<<"[">>) /\ ClassEnd(body, i) > 0 -> <<Class(body, i), ClassEnd(body, i) + 1>>
          [] OTHER -> <<Literal(body[i]), i + 1>>

Translate(body) ==
    LET parts[i \in 1..Len(body) + 3] ==
            IF i > Len(body) THEN <<>> ELSE <<PartAt(body, i)[1]>> \o parts[PartAt(body, i)[2]]
    IN  parts[1]

Rule(line) ==
    LET negate == line[1] = "!"
        rest == IF negate THEN Tail(line) ELSE line
        dirOnly == rest # <<>> /\ Last(rest) = "/"
        body == IF dirOnly THEN Front(rest) ELSE rest
        inner == {i \in DOMAIN body : body[i] # "/"}
    IN  [negate |-> negate, dirOnly |-> dirOnly, empty |-> body = <<>>,
         anchored |-> "/" \in ToSet(body),
         parts |-> Translate(IF inner = {} THEN <<>> ELSE From(body, Min(inner)))]

Rules(lines) ==
    LET kept == SelectSeq(lines, LAMBDA line : Trimmed(line) # <<>> /\ ~Comment(line))
    IN  SelectSeq([k \in DOMAIN kept |-> Rule(Trimmed(kept[k]))], LAMBDA rule : ~rule.empty)

\* "a-c" is a range, a "-" at either end a character.
InClass(spec, char) ==
    LET in[k \in 1..Len(spec) + 3] ==
            /\ k <= Len(spec)
            /\ IF k + 2 <= Len(spec) /\ spec[k + 1] = "-"
               THEN Ordinal(char) \in Ordinal(spec[k])..Ordinal(spec[k + 2]) \/ in[k + 3]
               ELSE spec[k] = char \/ in[k + 1]
    IN  in[1]

\* parts_match, from part i at character j of text.
PartsMatch(parts, text) ==
    LET match[i \in 1..Len(parts) + 1, j \in 1..Len(text) + 1] ==
            IF i > Len(parts) THEN j > Len(text)
            ELSE LET part == parts[i]
                     here == j <= Len(text)
                     skip(most) == \E k \in j..most : match[i + 1, k]
                     slashes == {k \in j..Len(text) : text[k] = "/"}
                 IN  CASE part.kind = "lit" -> here /\ text[j] = part.char /\ match[i + 1, j + 1]
                       [] part.kind = "star" ->
                              skip(IF slashes = {} THEN Len(text) + 1 ELSE Min(slashes))
                       [] part.kind = "any" -> skip(Len(text) + 1)
                       [] part.kind = "below" ->
                              match[i + 1, j] \/ \E k \in slashes : match[i + 1, k + 1]
                       [] part.kind = "one" -> here /\ text[j] # "/" /\ match[i + 1, j + 1]
                       [] part.kind = "class" -> /\ here /\ text[j] # "/"
                                                 /\ InClass(part.chars, text[j]) # part.negated
                                                 /\ match[i + 1, j + 1]
    IN  match[1, 1]

RuleMatches(rule, rel) ==
    \E k \in 0..Len(rel) :
        /\ k = 0 \/ (~rule.anchored /\ rel[k] = "/")
        /\ PartsMatch(rule.parts, From(rel, k + 1))

\* The last rule that matches decides.
LastMatch(rules, path, isDir) ==
    LET decided(hits) == hits # {} /\ ~rules[Max(hits)].negate
    IN  decided({k \in DOMAIN rules : (rules[k].dirOnly => isDir) /\ RuleMatches(rules[k], Joined(path))})

IsIgnored(rules, path, isDir) ==
    \E n \in 1..Len(path) : LastMatch(rules, SubSeq(path, 1, n), n < Len(path) \/ isDir)

-----------------------------------------------------------------------------
\* The walk.  A tree is its files, ignores(dir) the .gitignore of a directory.

Subdirs(tree, dir) ==
    {SubSeq(file, 1, Len(dir) + 1) : file \in {f \in tree : IsStrictPrefix(dir, f) /\ Len(f) > Len(dir) + 1}}
IsDir(tree, path) == \E file \in tree : IsStrictPrefix(path, file)

Extension(name) ==
    LET dots == {i \in 2..Len(name) : name[i] = "."}
    IN  IF dots = {} THEN <<>> ELSE [k \in 1..Len(name) - Max(dots) |-> Folded(name[Max(dots) + k])]

PassedOver(name, extra) == name[1] = "." \/ name \in Skipped \cup extra

\* walk_dir below root: only the .gitignore of root counts.
Found(tree, root, rules, extra) ==
    LET rel(path) == From(path, Len(root) + 1)
        dirs == {root} \cup UNION {{SubSeq(f, 1, n) : n \in Len(root)..Len(f) - 1} :
                                     f \in {g \in tree : IsStrictPrefix(root, g)}}
        found[dir \in dirs] ==
            {f \in tree : /\ Front(f) = dir
                          /\ ~PassedOver(Last(f), extra)
                          /\ Extension(Last(f)) \in Supported
                          /\ ~IsIgnored(rules, rel(f), FALSE)}
            \cup UNION {found[sub] : sub \in {d \in Subdirs(tree, dir) :
                             ~PassedOver(Last(d), extra) /\ ~IsIgnored(rules, rel(d), TRUE)}}
    IN  found[root]

NameBelow(left, right) ==
    \/ IsStrictPrefix(left, right)
    \/ \E i \in DOMAIN left \cap DOMAIN right :
            /\ SubSeq(left, 1, i - 1) = SubSeq(right, 1, i - 1)
            /\ Ordinal(left[i]) < Ordinal(right[i])
PathOrder(left, right) ==
    \/ IsStrictPrefix(left, right)
    \/ \E i \in DOMAIN left \cap DOMAIN right :
            SubSeq(left, 1, i - 1) = SubSeq(right, 1, i - 1) /\ NameBelow(left[i], right[i])

\* The files in their order: the n-th has n - 1 before it.
InOrder(files) ==
    [n \in 1..Cardinality(files) |->
        CHOOSE file \in files : Cardinality({f \in files : PathOrder(f, file)}) = n - 1]

Expand(tree, root, rules, extra) == InOrder(Found(tree, root, rules, extra))

-----------------------------------------------------------------------------
\* The paths of a call.  An absolute path begins with Root.

Dot == <<".">>
Root == <<"/">>
Joins(cwd, path) == IF path # <<>> /\ Head(path) = Root THEN Tail(path) ELSE cwd \o path
Cleaned(path) == FoldLeft(LAMBDA out, name : IF name = Dot THEN out ELSE Append(out, name), <<>>, path)

\* rel_of drops the "."s that a path begins with; outside cwd it stays whole.
RelOf(cwd, path) ==
    LET rest == From(path, Len(cwd) + 1)
        named == {i \in DOMAIN rest : rest[i] # Dot}
    IN  IF ~IsPrefix(cwd, path) THEN <<Root>> \o path
        ELSE IF named = {} THEN <<>> ELSE From(rest, Min(named))

Key(engine, path) == IF engine.root # Unset THEN RelOf(engine.cwd, path) ELSE <<Root>> \o Cleaned(path)

Once(rows) == FoldLeft(LAMBDA out, row : IF \E k \in DOMAIN out : out[k].key = row.key
                                         THEN out ELSE Append(out, row), <<>>, rows)

\* What one path stands for: a file is taken whatever the rules say.
Rows(engine, tree, ignores, path) ==
    LET spelled == Joins(engine.cwd, path)
        real == Cleaned(spelled)
        row(rest) == [key |-> Key(engine, spelled \o rest), file |-> real \o rest]
        rows(under) == [k \in DOMAIN under |-> row(From(under[k], Len(real) + 1))]
    IN  IF real \in tree THEN <<row(<<>>)>>
        ELSE IF IsDir(tree, real)
             THEN rows(Expand(tree, real, IF engine.respect THEN Rules(ignores[real]) ELSE <<>>, engine.skip))
             ELSE <<>>

Collect(engine, tree, ignores, paths) ==
    LET inputs == IF paths = <<>> THEN <<(<<>>)>> ELSE paths
    IN  Once(FlattenSeq([k \in DOMAIN inputs |-> Rows(engine, tree, ignores, inputs[k])]))

\* Does a call speak of the whole project?
Whole(paths) == paths = <<>> \/ <<Dot>> \in ToSet(paths)

\* Mutant: a directory drops what begins with its name.
Unseen_Textual(engine, tree, paths, seen, key) ==
    /\ key \notin seen
    /\ \/ Whole(paths)
       \/ \E path \in ToSet(paths) : /\ IsDir(tree, Cleaned(Joins(engine.cwd, path)))
                                     /\ IsPrefix(Joined(path), Joined(key))

\* drop_unseen takes a document by its name: below the path as it was spelled,
\* and below an empty one, as "/" is when its end is trimmed, none.
Unseen(engine, tree, paths, seen, key) ==
    /\ key \notin seen
    /\ \/ Whole(paths)
       \/ \E path \in ToSet(paths) \ {<<>>, <<Root>>} :
              IsDir(tree, Cleaned(Joins(engine.cwd, path))) /\ IsPrefix(path, key)

\* Nothing to do, by the document rows alone (index_if_unchanged): the files
\* found are known and none was edited since; only a call for the whole project
\* also asks whether every document was found.  A file has stamps of its own.
Unchanged(docs, rows, edited, paths) ==
    /\ docs # {}
    /\ \A row \in rows : row \in docs /\ row.file \notin edited
    /\ Whole(paths) => \A doc \in docs : doc.key \in {row.key : row \in rows}

\* The documents after an index call: rows of a name and the file it was read
\* from.  A brief call, of a command line without --force, read only those.
Index(engine, docs, call) ==
    LET kept(seen) == {doc \in docs : doc.key \notin seen
                                     /\ ~Unseen(engine, call.tree, call.paths, seen, doc.key)}
        after(rows) == IF call.brief /\ Unchanged(docs, rows, call.edited, call.paths) THEN docs
                       ELSE kept({row.key : row \in rows}) \cup rows
    IN  after(ToSet(Collect(engine, call.tree, call.ignores, call.paths)))

-----------------------------------------------------------------------------
\* Where the project begins, .stele-context.toml there, and the store.

DetectProjectRoot(places, cwd) ==
    LET marked == {n \in 0..Len(cwd) : places[SubSeq(cwd, 1, n)].git \/ places[SubSeq(cwd, 1, n)].toml # Unset}
    IN  IF marked = {} THEN Unset ELSE SubSeq(cwd, 1, Max(marked))

\* A line of the file is blank, the header of a table, a pair or broken.
\* Lines of other tables are not read, whatever they are.
ParseSection(lines) ==
    FoldLeft(LAMBDA file, line :
                 CASE line.kind = "blank" -> file
                   [] line.kind = "table" ->
                          [file EXCEPT !.at = line.name,
                                       !.section = IF line.name = "stele-context" /\ @ = Unset THEN <<>> ELSE @]
                   [] line.kind = "pair" /\ file.at = Unset -> [file EXCEPT !.top = Append(@, line)]
                   [] line.kind = "pair" /\ file.at = "stele-context" ->
                          [file EXCEPT !.section = Append(@, line)]
                   [] line.kind = "broken" /\ file.at \in {Unset, "stele-context"} -> [file EXCEPT !.broken = TRUE]
                   [] OTHER -> file,
             [at |-> Unset, top |-> <<>>, section |-> Unset, broken |-> FALSE], lines)

Config == [key \in {"storage_dir", "chunk_size", "max_chunk_size", "max_history_entries", "respect_gitignore",
                    "skip_dirs", "merge_threshold", "change_threshold", "search_alpha"} |-> Unset]
TypeOf(key) ==
    CASE key = "storage_dir" -> {"string"}
      [] key = "respect_gitignore" -> {"bool"}
      [] key = "skip_dirs" -> {"array"}
      [] key \in {"chunk_size", "max_chunk_size", "max_history_entries"} -> {"int"}
      [] OTHER -> {"int", "float"}

\* A value of the wrong type is passed over, and takes back a threshold.
ConfigFromSection(rows) ==
    FoldLeft(LAMBDA config, row :
                 IF row.key \notin DOMAIN Config THEN config
                 ELSE IF row.type \in TypeOf(row.key) THEN [config EXCEPT ![row.key] = row.value]
                 ELSE IF "float" \in TypeOf(row.key) THEN [config EXCEPT ![row.key] = Unset]
                 ELSE config,
             Config, rows)

Load(lines) ==
    LET file == ParseSection(lines)
    IN  IF lines = Unset \/ file.broken THEN Config
        ELSE ConfigFromSection(IF file.section = Unset THEN file.top ELSE file.section)

Or(value, default) == IF value = Unset THEN default ELSE value

\* Engine::open: where it works, and with which settings.
Open(places, cwd) ==
    LET root == DetectProjectRoot(places, cwd)
        config == IF root = Unset THEN Config ELSE Load(places[root].toml)
    IN  [root |-> root, cwd |-> cwd, config |-> config,
         skip |-> Or(config["skip_dirs"], {}),
         respect |-> Or(config["respect_gitignore"], TRUE),
         chunk |-> Max({1, Or(config["chunk_size"], 256)})]

\* The flag, the settings, the environment, the project, the home directory.
ResolveStorageDir(flag, engine, env, home) ==
    LET said == SelectSeq(<<flag, engine.config["storage_dir"], env,
                            IF engine.root = Unset THEN Unset ELSE Append(engine.root, "store"), home>>,
                          LAMBDA dir : dir # Unset)
    IN  IF said = <<>> THEN Unset ELSE Head(said)
=============================================================================
