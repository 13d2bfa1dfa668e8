----------------------------- MODULE WalkTasks -----------------------------
(***************************************************************************)
(* Two index calls on one store, by processes that may work in different   *)
(* directories of the project, with the tree and its .gitignore changed    *)
(* between them.                                                           *)
(***************************************************************************)
EXTENDS Tasks

CONSTANTS Unset, Skipped, Supported,
          Scenes   \* the places, and for each call its directory, tree, rules and paths,
                   \* the files edited since, and whether it read document rows only

W == INSTANCE ProjectWalk

\* A path as the system has it: names one below the other, none of them "."
\* or "/".
Resolved(path) == path \in Seq(ToSet(path)) /\ {W!Dot, W!Root} \cap ToSet(path) = {}

\* A path as a user spells it: from "/" or with "."s before the names.  With a
\* "." between names a document gets a second name (rel_of keeps it there).
Spelled(path) ==
    /\ path \in Seq(ToSet(path))
    /\ \A i \in DOMAIN path : /\ path[i] = W!Root => i = 1
                              /\ path[i] = W!Dot => \A n \in 1..i : path[n] = W!Dot

LettersOf(tree) == UNION {ToSet(name) : name \in UNION {ToSet(file) : file \in tree}}

\* A call in a file system: a file has a name, and no file is below another.
Proper(call) ==
    /\ Resolved(call.cwd) /\ IsFiniteSet(call.tree)
    /\ \A file \in call.tree :
          /\ Resolved(file) /\ \A name \in ToSet(file) : name \in Seq(ToSet(name))
          /\ file # <<>> /\ ~W!IsDir(call.tree, file)
    /\ \A c, d \in LettersOf(call.tree) : Ordinal(c) \in Int /\ (Ordinal(c) = Ordinal(d) => c = d)
    /\ call.brief \in BOOLEAN
    /\ call.paths \in Seq(ToSet(call.paths))
    /\ \A path \in ToSet(call.paths) : Spelled(path)

CallsOf(scene) == {scene.calls[1], scene.calls[2]}

ASSUME ScenesAssumption == \A scene \in Scenes : \A call \in CallsOf(scene) : Proper(call)

WalkInputs == Chosen("walk") /\ input \in Scenes

Walk ==
    /\ Runs("walk")
    /\ LET engine(k) == W!Open(input.places, input.calls[k].cwd)
           index(k, docs) == W!Index(engine(k), docs, input.calls[k])
       IN  \E first \in {index(1, {})} :
               answer' = [engine |-> engine(2), first |-> first, second |-> index(2, first),
                          store |-> W!ResolveStorageDir(Unset, engine(2), Unset, Unset)]

-----------------------------------------------------------------------------
\* A file that a walk of dir is to find: no name on the way is passed over,
\* and no directory on the way nor the file is ignored by the rules of dir.
Wanted(call, engine, dir) ==
    LET rules == IF engine.respect THEN W!Rules(call.ignores[dir]) ELSE <<>>
        ignored(path, isDir) == W!LastMatch(rules, SubSeq(path, Len(dir) + 1, Len(path)), isDir)
    IN  {file \in call.tree :
            /\ IsStrictPrefix(dir, file)
            /\ W!Extension(Last(file)) \in Supported
            /\ \A n \in Len(dir) + 1..Len(file) :
                  /\ ~W!PassedOver(file[n], engine.skip)
                  /\ ~ignored(SubSeq(file, 1, n), n < Len(file))}

\* The places that a call names: the working directory, or its paths.
Given(call) ==
    {W!Cleaned(W!Joins(call.cwd, path)) : path \in IF call.paths = <<>> THEN {<<>>} ELSE ToSet(call.paths)}
Whole(call) == call.paths = <<>> \/ <<W!Dot>> \in ToSet(call.paths)

\* The directories that it names as the documents below them are named: the
\* whole project, or a path without a "." below it or apart from it.
Named(call, engine) ==
    {dir \in Given(call) :
        /\ W!IsDir(call.tree, dir)
        /\ \/ Whole(call) /\ dir = call.cwd
           \/ /\ engine.root # Unset /\ dir # call.cwd
              /\ \E path \in ToSet(call.paths) : dir = call.cwd \o path
           \/ /\ <<W!Root>> \o dir \in ToSet(call.paths) /\ dir # <<>>
              /\ engine.root = Unset \/ (~IsPrefix(call.cwd, dir) /\ ~IsPrefix(dir, call.cwd))}

\* After index the documents under the directories it was given are what a
\* walk is to find there and the files that were named, however files and
\* rules changed since the last call; those elsewhere are as before; and a file
\* named twice is one document (collect, walk_dir, is_ignored, drop_unseen).
\* Only a brief call for a part of the project may leave documents of files
\* that are gone or ignored, and then it does nothing at all: every file that
\* it finds and that is named is known and as it was (index_if_unchanged).
WalkSettles ==
    Answered("walk") /\ input.calls[1].cwd = input.calls[2].cwd =>
        LET call == input.calls[2]
            engine == answer.engine
            files(docs) == {doc.file : doc \in docs}
            under(set, where) == {file \in set : \E dir \in where : IsPrefix(dir, file)}
            wanted == UNION {Wanted(call, engine, dir) : dir \in {d \in Given(call) : W!IsDir(call.tree, d)}}
        IN  /\ wanted \subseteq files(answer.second)
            /\ \/ under(files(answer.second), Named(call, engine)) \subseteq wanted \cup Given(call)
               \/ /\ call.brief /\ ~Whole(call) /\ answer.second = answer.first
                  /\ wanted \cup (Given(call) \cap call.tree) \subseteq files(answer.first) \ call.edited
            /\ ~Whole(call) =>
                  files(answer.first) \ under(files(answer.first), Given(call)) \subseteq files(answer.second)
            /\ \A d, e \in answer.second : d.file = e.file => d = e
=============================================================================
