---------------------------- MODULE ProjectFiles ----------------------------
(***************************************************************************)
(* The files a chat agent can see (apps/backend/src/utils/tools.ts and the  *)
(* list, read, search and grep tools), as pure functions of the project     *)
(* folder and of the lines of its .dazenseignore.                           *)
(*                                                                          *)
(*   path     a sequence of names, absolute for a real path                  *)
(*   line     [dir, names]: a line of .dazenseignore, names without the      *)
(*            trailing slash that makes it a directory pattern; lines with   *)
(*            ** or a leading slash are left out, and so are symbolic links  *)
(*   tree     the files and directories below the folder, as a function from *)
(*            relative paths to the lines of a file, or to "directory"       *)
(* A function that may throw returns <<result>>, and <<>> when it throws.     *)
(***************************************************************************)
EXTENDS Integers, Sequences, FiniteSets, SequencesExt

CONSTANTS
    Glob,       \* the names a glob of one name matches, for the names used as globs
    Hidden,     \* the names that begin with a dot
    DotDot      \* the names that begin with two

Excluded == {".meta"}

\* minimatch of one name, with dot: true.
Expands(name) == IF name \in DOMAIN Glob THEN Glob[name] ELSE {name}

MatchesAt(path, names, i) ==
    \A j \in DOMAIN names : path[i + j] \in Expands(names[j])

\* minimatch of names with **/ before it, alone or with /** behind it.
MatchesInside(path, names) == \E i \in 0 .. Len(path) - Len(names) : MatchesAt(path, names, i)

\* isIgnoredByDazenseignore: the names of a directory pattern are compared as text.
IgnoredBy(path, lines) ==
    \E line \in lines :
        IF line.dir
        THEN IsPrefix(line.names, path) \/ \E i \in DOMAIN path : <<path[i]>> = line.names
        ELSE MatchesInside(path, line.names)

Below(root, path) == IsPrefix(root, path)

Relative(root, path) == SubSeq(path, Len(root) + 1, Len(path))

\* isIgnoredPath of a path in the folder: one that begins with two dots is taken for
\* a path outside it.
IgnoredPath(root, path, lines) ==
    LET relative == Relative(root, path)
    IN (relative = <<>> \/ Head(relative) \notin DotDot) /\ IgnoredBy(relative, lines)

IsWithinProjectFolder(root, path, lines) ==
    /\ Below(root, path)
    /\ ToSet(path) \cap Excluded = {}
    /\ ~IgnoredPath(root, path, lines)

\* path.resolve of names after a directory.
Resolve(from, names) ==
    FoldLeft(LAMBDA at, name :
                CASE name = ".." -> IF at = <<>> THEN at ELSE Front(at)
                  [] name = "." -> at
                  [] OTHER -> Append(at, name),
             from, names)

\* toRealPath; absolute when a slash is left after the first one is taken off.
RealPath(root, virtual, lines) ==
    LET path == Resolve(IF virtual.absolute THEN <<>> ELSE root, virtual.names)
    IN IF IsWithinProjectFolder(root, path, lines) THEN <<path>> ELSE <<>>

VirtualPath(root, path, lines) ==
    IF IsWithinProjectFolder(root, path, lines)
    THEN <<[absolute |-> FALSE, names |-> Relative(root, path)]>>
    ELSE <<>>

-----------------------------------------------------------------------------
(* The tools *)

IsDirectory(tree, path) == path = <<>> \/ (path \in DOMAIN tree /\ tree[path] = "directory")

Children(tree, path) == {p \in DOMAIN tree : p # <<>> /\ Front(p) = path}

ShouldExcludeEntry(path, lines) == Last(path) \in Excluded \/ IgnoredBy(path, lines)

\* list: one entry that cannot be converted back fails all of it.
List(root, tree, virtual, lines) ==
    LET real == RealPath(root, virtual, lines)
        path == Relative(root, real[1])
        shown == {p \in Children(tree, path) : ~ShouldExcludeEntry(p, lines)}
        EntryOf(p) ==
            [path |-> VirtualPath(root, root \o p, lines)[1],
             itemCount |-> IF IsDirectory(tree, p) THEN <<Cardinality(Children(tree, p))>> ELSE <<>>]
    IN IF /\ real # <<>> /\ IsDirectory(tree, path)
          /\ \A p \in shown : VirtualPath(root, root \o p, lines) # <<>>
       THEN <<{EntryOf(p) : p \in shown}>>
       ELSE <<>>

\* read
Read(root, tree, virtual, lines) ==
    LET real == RealPath(root, virtual, lines)
        path == Relative(root, real[1])
    IN IF real = <<>> \/ path \notin DOMAIN tree \/ IsDirectory(tree, path) THEN <<>>
       ELSE <<tree[path]>>

\* glob(): a name that begins with a dot is matched by no * or **, and the patterns
\* to ignore are those of .dazenseignore, a directory's names taken as a glob too.
GlobFinds(tree, names, lines) ==
    {p \in DOMAIN tree :
        LET free == Len(p) - Len(names)
        IN /\ free >= 0 /\ MatchesAt(p, names, free)
           /\ \A i \in DOMAIN p : p[i] \in Hidden => i > free /\ names[i - free] = p[i]
           /\ \A line \in lines : ~MatchesInside(p, line.names)}

\* search
Search(root, tree, pattern, lines) ==
    IF pattern.absolute \/ ".." \in ToSet(pattern.names) THEN <<>>
    ELSE <<{VirtualPath(root, root \o p, lines)[1] :
               p \in {q \in GlobFinds(tree, pattern.names, lines) :
                         IsWithinProjectFolder(root, root \o q, lines)}}>>

\* addContextToMatches, for one match.
Context(file, n, lineNumber) ==
    [before |-> SubSeq(file, IF lineNumber > n THEN lineNumber - n ELSE 1, lineNumber - 1),
     after |-> SubSeq(file, lineNumber + 1,
                      IF lineNumber + n < Len(file) THEN lineNumber + n ELSE Len(file))]

\* grep, on what ripgrep prints: <<[path, line, submatches]>>.
Grep(root, tree, printed, max, n, lines) ==
    LET within == SelectSeq(printed, LAMBDA e : IsWithinProjectFolder(root, e.path, lines))
        Found(e) ==
            LET virtual == VirtualPath(root, e.path, lines)[1]
                file == Read(root, tree, virtual, lines)
            IN [path |-> virtual, line |-> e.line,
                context |-> IF n = 0 \/ file = <<>> THEN <<>> ELSE <<Context(file[1], n, e.line)>>]
        all == FoldLeft(LAMBDA got, e : got \o [i \in 1 .. e.submatches |-> Found(e)], <<>>, within)
    IN [matches |-> SubSeq(all, 1, IF Len(all) < max THEN Len(all) ELSE max),
        total |-> Len(all),
        truncated |-> Len(all) > max]

-----------------------------------------------------------------------------
(***************************************************************************)
(* Facts                                                                    *)
(***************************************************************************)

At(names) == [absolute |-> FALSE, names |-> names]

\* No spelling of a path leads out of the folder, and one that is converted back
\* leads to the same file.
StaysInside(root, virtual, lines) ==
    LET real == RealPath(root, virtual, lines)
    IN real # <<>> =>
          /\ Below(root, real[1])
          /\ RealPath(root, VirtualPath(root, real[1], lines)[1], lines) = real

\* A line names a path by its last names, or as a whole if it is a directory's of more
\* than one name.
Names(line, path) ==
    IF line.dir
    THEN path = line.names \/ (path # <<>> /\ <<Last(path)>> = line.names)
    ELSE Len(path) >= Len(line.names) /\ MatchesAt(path, line.names, Len(path) - Len(line.names))

\* A file can be read unless a line names it or a directory above it, but all files
\* under a name with two dots can, and none under an excluded one.
ReadObeysLines(root, tree, lines) ==
    \A p \in DOMAIN tree :
        LET named == \E line \in lines : \E i \in DOMAIN p : Names(line, SubSeq(p, 1, i))
        IN ~IsDirectory(tree, p) =>
              (Read(root, tree, At(p), lines) # <<>>) =
                 (ToSet(p) \cap Excluded = {} /\ (Head(p) \in DotDot \/ ~named))

\* What can be listed is what can be read, from the root down: list shows no file
\* that read refuses, and fails on no entry; read opens no file that list hides,
\* except under a name with two dots, where .dazenseignore is not applied to read.
ListAgreesWithRead(root, tree, lines) ==
    \A p \in DOMAIN tree :
        LET parent == List(root, tree, At(Front(p)), lines)
            listed == parent # <<>> /\ \E e \in parent[1] : e.path = At(p)
            readable == Read(root, tree, At(p), lines) # <<>>
        IN /\ listed /\ ~IsDirectory(tree, p) => readable
           /\ readable /\ Head(p) \notin DotDot => listed
           /\ IsDirectory(tree, p) =>
                 (List(root, tree, At(p), lines) = <<>>) = (RealPath(root, At(p), lines) = <<>>)

\* search finds only what list shows, and misses none of it but what is hidden, or in
\* a directory whose line is a glob.
SearchAgreesWithList(root, tree, pattern, lines) ==
    LET found == Search(root, tree, At(pattern), lines)[1]
        Listed(p) == LET parent == List(root, tree, At(Front(p)), lines)
                     IN parent # <<>> /\ \E e \in parent[1] : e.path = At(p)
    IN \A p \in DOMAIN tree :
          /\ At(p) \in found => Listed(p)
          /\ /\ Listed(p) /\ ToSet(p) \cap Hidden = {}
             /\ \E i \in 0 .. Len(p) : Len(p) - i = Len(pattern) /\ MatchesAt(p, pattern, i)
             => \/ At(p) \in found
                \/ \E line \in lines : line.dir /\ MatchesInside(p, line.names)

\* grep shows no line of a file that read refuses, its matches are cut exactly when
\* it says so, and a context is the run of lines around its match.
GrepIsHonest(root, tree, printed, max, n, lines) ==
    LET out == Grep(root, tree, printed, max, n, lines)
    IN /\ out.truncated = (Len(out.matches) < out.total)
       /\ \A m \in ToSet(out.matches) :
             LET file == Read(root, tree, m.path, lines)
             IN /\ file # <<>>
                /\ m.context # <<>> =>
                      LET c == m.context[1]
                          around == c.before \o <<file[1][m.line]>> \o c.after
                          from == m.line - Len(c.before)
                      IN /\ Len(c.before) <= n /\ Len(c.after) <= n
                         /\ around = SubSeq(file[1], from, from + Len(around) - 1)
                         /\ Len(c.before) < n => from = 1
                         /\ Len(c.after) < n => m.line + Len(c.after) = Len(file[1])
=============================================================================
