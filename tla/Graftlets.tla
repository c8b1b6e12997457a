------------------------------ MODULE Graftlets ------------------------------
(***************************************************************************)
(* class GraftletLoader (lib/graft/GraftletLoader.cpp, .h): the libraries  *)
(* of the graftlet directories are loaded, those whose dependencies are    *)
(* not met are unloaded, and a cycle of dependencies ends the start.       *)
(*                                                                         *)
(* A name is a number, in the order of the names.  The dependencies of a   *)
(* library are a set of [name, minver], BadFormat when the text cannot be  *)
(* parsed, or TooLarge when a version in it is a number std::stoi cannot   *)
(* convert.  The name by which removeFailedDependants erases the second    *)
(* entry of what it removes is that of the entry just erased: undefined,   *)
(* and taken to be still readable.                                         *)
(***************************************************************************)
EXTENDS Maps, Naturals, Sequences, FiniteSets

CONSTANTS
    Names,          \* getGraftletName
    Libraries,      \* files of the directories: [kind, name, version, deps]
    MaxFiles,
    ExceptionList,  \* ranges of versions of each name: [from, to]
    BadFormat, TooLarge,
    NoName

ASSUME GraftletAssumption ==
    /\ Names \subseteq Nat /\ NoName \notin Names
    /\ \A f \in Libraries :
          /\ f.kind \in {"loads", "skipped", "throws"}
          /\ f.name \in Names /\ f.version \in Nat
          /\ f.deps \in {BadFormat, TooLarge} \/ \A d \in f.deps : d.minver \in Nat
    /\ MaxFiles \in Nat

VARIABLES
    files,      \* what the directories hold, in the order they are read
    next,       \* the file that is read next
    libs,       \* m_name2lib: [version, deps]
    graph,      \* m_graph: the dependencies of the names that are left
    color,      \* of every vertex
    path,       \* "almost a stack"
    cur         \* the vertex the search is at; NoName between two searches

graftletVars == <<files, next, libs, graph, color, path, cur>>

\* initGraftletDirs: what the directories of the command line and the configuration hold.
Directories == UNION {[1..n -> Libraries] : n \in 0..MaxFiles}

GraftletInit ==
    /\ files \in Directories
    /\ next = 1
    /\ libs = <<>>
    /\ graph = <<>>
    /\ color = <<>>
    /\ path = <<>>
    /\ cur = NoName

is_in_GEL(name, version) == \E r \in ExceptionList[name] : r.from <= version /\ version <= r.to

----------------------------------------------------------------------------
(* findGraftletsInDirectory, a file at a time.                             *)

\* A file that cannot be loaded, lacks a function, has another ABI or is for another version
\* of the framework is passed over ("skipped"); so is one in the exception list and, by way
\* of an exception, one whose name is taken.  A function of a library that throws ends the
\* start ("throws").
Throws == next <= Len(files) /\ files[next].kind = "throws"

Accepted(f) ==
    f.kind = "loads" /\ ~is_in_GEL(f.name, f.version) /\ f.name \notin DOMAIN libs

FindGraftlet ==
    /\ next <= Len(files) /\ ~Throws
    /\ next' = next + 1
    /\ libs' = LET f == files[next] IN
               IF Accepted(f) THEN With(libs, f.name, [version |-> f.version, deps |-> f.deps])
               ELSE libs
    /\ UNCHANGED <<files, graph, color, path, cur>>

----------------------------------------------------------------------------
(* checkDependencies: initialize, removeFailedDependants, findCycles.      *)

\* std::out_of_range leaves initialize.
InitializeThrows == next > Len(files) /\ \E n \in DOMAIN libs : libs[n].deps = TooLarge

InitializeGraph ==
    /\ next > Len(files) /\ ~InitializeThrows
    /\ graph' = [n \in DOMAIN libs |-> libs[n].deps]
    /\ UNCHANGED <<files, next, libs, color, path, cur>>

\* Faulty: only that the dependencies are there is looked at.
FailedByName(n) ==
    \/ graph[n] = BadFormat
    \/ \E d \in graph[n] : d.name \notin DOMAIN graph

Failed(n) ==
    \/ graph[n] = BadFormat
    \/ \E d \in graph[n] : d.name \notin DOMAIN graph \/ libs[d.name].version < d.minver

FailedNames == {n \in DOMAIN graph : Failed(n)}

\* One round: the first that fails goes, and the round starts anew.
RemoveFailed ==
    /\ FailedNames # {}
    /\ graph' = Without(graph, Least(FailedNames))
    /\ libs' = Without(libs, Least(FailedNames))
    /\ UNCHANGED <<files, next, color, path, cur>>

Paint ==
    /\ FailedNames = {}
    /\ color' = [n \in DOMAIN graph |-> "white"]
    /\ UNCHANGED <<files, next, libs, graph, path, cur>>

Of(c) == {n \in DOMAIN color : color[n] = c}
Children(n) == {d.name : d \in graph[n]}

\* The search starts anew from the first white vertex.
PickWhite ==
    /\ cur = NoName /\ Of("white") # {}
    /\ cur' = Least(Of("white"))
    /\ color' = [color EXCEPT ![cur'] = "gray"]
    /\ UNCHANGED <<files, next, libs, graph, path>>

Descend(child) ==
    /\ cur # NoName /\ child \in Children(cur) /\ color[child] = "white"
    /\ path' = Append(path, cur)
    /\ cur' = child
    /\ color' = [color EXCEPT ![child] = "gray"]
    /\ UNCHANGED <<files, next, libs, graph>>

\* A child on the path, or the vertex itself.
CycleFound == cur # NoName /\ \E child \in Children(cur) : color[child] = "gray"

StepBack ==
    /\ cur # NoName /\ \A child \in Children(cur) : color[child] = "black"
    /\ color' = [color EXCEPT ![cur] = "black"]
    /\ cur' = IF path = <<>> THEN NoName ELSE path[Len(path)]
    /\ path' = IF path = <<>> THEN path ELSE SubSeq(path, 1, Len(path) - 1)
    /\ UNCHANGED <<files, next, libs, graph>>

SearchDone == cur = NoName /\ Of("white") = {}

----------------------------------------------------------------------------
(* What the graftlets left should be, from the files alone.                *)

\* The first file of a name that is accepted.
Candidates ==
    {i \in DOMAIN files :
        /\ files[i].kind = "loads" /\ ~is_in_GEL(files[i].name, files[i].version)
        /\ \A j \in 1..(i - 1) :
              files[j].name = files[i].name =>
                  files[j].kind # "loads" \/ is_in_GEL(files[j].name, files[j].version)}

\* Candidates whose dependencies are met among themselves.
Supported(s) ==
    \A i \in s :
        /\ files[i].deps \notin {BadFormat, TooLarge}
        /\ \A d \in files[i].deps :
              \E j \in s : files[j].name = d.name /\ d.minver <= files[j].version

LargestSupported == UNION {s \in SUBSET Candidates : Supported(s)}

\* Some of them depend on one another in a circle.
Cyclic(s) ==
    \E c \in (SUBSET s) \ {{}} :
        \A i \in c : \E j \in c : \E d \in files[i].deps : d.name = files[j].name
=============================================================================
