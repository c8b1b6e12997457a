-------------------------- MODULE GraftServerProofs --------------------------
(***************************************************************************)
(* The graftlets that are loaded are the largest set that is supported and *)
(* has no cycle, and a server serves with the routes of one start only,    *)
(* for any libraries in any order, any dependencies, routes and signals.   *)
(* The black list it reads (BlackList) bounds the requests of an address,  *)
(* follows the first rule it kept and bans an address for as long as it    *)
(* should, for any limit, window, bans and rules.                          *)
(***************************************************************************)
EXTENDS GraftServer, BlackList, FiniteSetTheorems, WellFoundedInduction, TLAPS

\* What the directories hold is read from the front.
FilesOK ==
    /\ files \in Directories
    /\ next \in 1 .. Len(files) + 1

\* The library of a file.
Found(i) == [version |-> files[i].version, deps |-> files[i].deps]

\* What is loaded are candidates that were read, each under its name; before the graph is made,
\* all of them.
LoadedOK ==
    /\ \A n \in DOMAIN libs :
          \E i \in Candidates : i < next /\ files[i].name = n /\ libs[n] = Found(i)
    /\ ~loader => \A i \in Candidates : i < next => files[i].name \in DOMAIN libs

\* The graph is made of all libraries that were found and keeps those that can be supported.
GraphOK ==
    loader =>
        /\ next > Len(files)
        /\ graph = [n \in DOMAIN libs |-> libs[n].deps]
        /\ \A n \in DOMAIN libs : libs[n].deps # TooLarge
        /\ \A i \in LargestSupported : files[i].name \in DOMAIN libs

\* Where the main thread is: the loader is there from the removal of dependants on, and after
\* it no library has a dependency that is not met.
PhaseOK ==
    /\ phase \in {"config", "looper", "find", "remove", "cycles", "misc", "routers", "bind", "run",
                  "serving"}
    /\ phase = "find" => ~loader
    /\ phase \notin {"config", "looper", "find"} => loader
    /\ loader /\ phase # "remove" => FailedNames = {}
    /\ ~loader \/ phase = "remove" => path = <<>> /\ cur = NoName

\* Some of these names depend on one another in a circle.
Circle(c) == c # {} /\ \A n \in c : \E m \in c : m \in Children(n)

\* The search for cycles: the gray vertices are the path and the vertex the search is at, each
\* a child of the one before it; the black ones have black children only, and no circle.
SearchOK ==
    /\ color \in [DOMAIN graph -> {"white", "gray", "black"}]
    /\ path \in Seq(DOMAIN graph)
    /\ cur \in DOMAIN graph \cup {NoName}
    /\ cur = NoName => path = <<>> /\ Of("gray") = {}
    /\ cur # NoName =>
          /\ Of("gray") = {path[i] : i \in DOMAIN path} \cup {cur}
          /\ \A i \in DOMAIN path : path[i] # cur
          /\ path # <<>> => cur \in Children(path[Len(path)])
    /\ \A i, j \in DOMAIN path : i # j => path[i] # path[j]
    /\ \A i \in 1 .. Len(path) - 1 : path[i + 1] \in Children(path[i])
    /\ \A n \in Of("black") : Children(n) \subseteq Of("black")
    /\ \A c \in SUBSET Of("black") : ~Circle(c)

\* The search is under way, or there is no circle.
CyclesOK ==
    /\ phase = "cycles" => SearchOK
    /\ loader /\ phase \notin {"remove", "cycles"} => \A c \in SUBSET DOMAIN graph : ~Circle(c)

\* The process has ended for a circle only if there was one.
EndedOK == ended = "cycle" => Cyclic(LargestSupported)

\* The routes of a start.
OneStart == GraftletRoutes \o OwnRoutes \o CallbackRoute

\* There are no routes until the graftlets are chosen, and never those of two starts but where
\* they are checked.
RoutesOK ==
    /\ ~loader \/ phase \in {"find", "remove", "cycles"} => routes = <<>>
    /\ phase \notin {"bind", "run", "serving"} => routes \in {<<>>, OneStart}
    /\ phase = "bind" => routes \in {OneStart, OneStart \o OneStart}
    /\ phase \in {"run", "serving"} => routes = OneStart

\* The inductive invariant.
IInv ==
    /\ FilesOK
    /\ LoadedOK
    /\ GraphOK
    /\ PhaseOK
    /\ CyclesOK
    /\ EndedOK
    /\ RoutesOK
    /\ server \in {"supernode", "wallet"}

-----------------------------------------------------------------------------
(* The files and what can be supported of them.                              *)

\* A nonempty set of naturals has a least element.
LEMMA LeastIs ==
    ASSUME NEW s, s \subseteq Nat, s # {}
    PROVE  Least(s) \in s /\ \A y \in s : Least(s) <= y
  <1>1. PICK x \in s : \A y \in s : ~ (<<y, x>> \in OpToRel(<, Nat))
    BY NatLessThanWellFounded, WFMin
  <1>2. ASSUME NEW y \in s PROVE x <= y
    <2>1. SUFFICES ASSUME y < x PROVE FALSE
      OBVIOUS
    <2>2. <<y, x>> \in OpToRel(<, Nat)
      BY <2>1 DEF OpToRel
    <2> QED BY <1>1, <2>2
  <1> QED BY <1>2 DEF Least

LEMMA FileTypes ==
    ASSUME FilesOK
    PROVE  /\ Len(files) \in Nat /\ DOMAIN files = 1 .. Len(files)
           /\ next \in Nat
           /\ \A i \in DOMAIN files : /\ files[i] \in Libraries
                                      /\ files[i].name \in Names /\ files[i].name \in Nat
                                      /\ files[i].version \in Nat
                                      /\ files[i].deps \notin {BadFormat, TooLarge} =>
                                            \A d \in files[i].deps : d.minver \in Nat
  <1>1. PICK n \in 0 .. MaxFiles : files \in [1 .. n -> Libraries]
    BY DEF FilesOK, Directories
  <1>2. n \in Nat
    BY <1>1, GraftletAssumption
  <1>3. files \in Seq(Libraries)
    BY <1>1, <1>2
  <1>4. \A i \in DOMAIN files : files[i] \in Libraries
    BY <1>1
  <1>5. Len(files) \in Nat /\ DOMAIN files = 1 .. Len(files)
    BY <1>3
  <1>6. next \in Nat
    BY <1>5 DEF FilesOK
  <1>7. ASSUME NEW f \in Libraries
        PROVE  /\ f.name \in Names /\ f.name \in Nat /\ f.version \in Nat
               /\ f.deps \notin {BadFormat, TooLarge} => \A d \in f.deps : d.minver \in Nat
    BY GraftletAssumption
  <1> QED BY <1>4, <1>5, <1>6, <1>7

LEMMA CandidatesDiffer ==
    ASSUME FilesOK, NEW i \in Candidates, NEW j \in Candidates, files[i].name = files[j].name
    PROVE  i = j
  <1>1. i \in Nat /\ j \in Nat /\ 1 <= i /\ 1 <= j
    BY FileTypes DEF Candidates
  <1>2. CASE i < j
    <2>1. i \in 1 .. (j - 1)
      BY <1>1, <1>2
    <2> QED BY <2>1 DEF Candidates
  <1>3. CASE j < i
    <2>1. j \in 1 .. (i - 1)
      BY <1>1, <1>3
    <2> QED BY <2>1 DEF Candidates
  <1> QED BY <1>1, <1>2, <1>3

\* The largest supported set is one.
LEMMA LargestIsLargest ==
    /\ LargestSupported \subseteq Candidates /\ Supported(LargestSupported)
    /\ \A s \in SUBSET Candidates : Supported(s) => s \subseteq LargestSupported
  <1>1. LargestSupported \subseteq Candidates
    BY DEF LargestSupported
  <1>2. \A s \in SUBSET Candidates : Supported(s) => s \subseteq LargestSupported
    BY DEF LargestSupported
  <1>3. ASSUME NEW i \in LargestSupported
        PROVE  /\ files[i].deps \notin {BadFormat, TooLarge}
               /\ \A d \in files[i].deps :
                     \E j \in LargestSupported : files[j].name = d.name /\ d.minver <= files[j].version
    <2>1. PICK s \in SUBSET Candidates : Supported(s) /\ i \in s
      BY <1>3 DEF LargestSupported
    <2>2. s \subseteq LargestSupported
      BY <1>2, <2>1
    <2> QED BY <2>1, <2>2 DEF Supported
  <1> QED BY <1>1, <1>2, <1>3 DEF Supported

\* They depend on the files alone.
LEMMA FilesFixed ==
    ASSUME files' = files
    PROVE  /\ Candidates' = Candidates /\ LargestSupported' = LargestSupported
           /\ Cyclic(LargestSupported)' <=> Cyclic(LargestSupported)
  BY DEF Candidates, LargestSupported, Supported, Cyclic

\* Once no dependency fails, the libraries left are the largest supported set.
LEMMA ExactNames ==
    ASSUME FilesOK, LoadedOK, GraphOK, loader, FailedNames = {}
    PROVE  /\ DOMAIN libs = {files[i].name : i \in LargestSupported}
           /\ \A i \in LargestSupported : graph[files[i].name] = files[i].deps
           /\ DOMAIN graph = DOMAIN libs
  <1> DEFINE left == {i \in Candidates : files[i].name \in DOMAIN libs}
  <1>1. /\ graph = [n \in DOMAIN libs |-> libs[n].deps]
        /\ \A i \in LargestSupported : files[i].name \in DOMAIN libs
    BY DEF GraphOK
  <1>2. ASSUME NEW i \in left PROVE libs[files[i].name] = Found(i)
    BY CandidatesDiffer DEF LoadedOK
  <1>3. ASSUME NEW i \in left
        PROVE  /\ files[i].deps \notin {BadFormat, TooLarge}
               /\ \A d \in files[i].deps :
                     \E j \in left : files[j].name = d.name /\ d.minver <= files[j].version
    <2>0. files[i].name \in DOMAIN libs /\ libs[files[i].name] = Found(i)
      BY <1>2, <1>3
    <2>1. graph[files[i].name] = files[i].deps /\ ~Failed(files[i].name)
      BY <1>1, <2>0 DEF FailedNames, Found
    <2>a. files[i].deps # TooLarge
      BY <1>1, <2>0 DEF GraphOK, Found
    <2>2. files[i].deps \notin {BadFormat, TooLarge}
      BY <2>1, <2>a DEF Failed
    <2>3. ASSUME NEW d \in files[i].deps
          PROVE  \E j \in left : files[j].name = d.name /\ d.minver <= files[j].version
      <3>1. d.name \in DOMAIN libs /\ ~(libs[d.name].version < d.minver)
        BY <1>1, <2>1, <2>3 DEF Failed
      <3>2. PICK j \in Candidates : files[j].name = d.name /\ libs[d.name] = Found(j)
        BY <3>1 DEF LoadedOK
      <3>3. d.minver \in Nat /\ files[j].version \in Nat
        BY <2>2, <2>3, FileTypes DEF Candidates
      <3> QED BY <3>1, <3>2, <3>3 DEF Found
    <2> QED BY <2>2, <2>3
  <1>4. left \subseteq LargestSupported
    <2>1. left \in SUBSET Candidates /\ Supported(left)
      BY <1>3 DEF Supported
    <2> QED BY <2>1, LargestIsLargest
  <1>5. LargestSupported \subseteq left
    BY <1>1, LargestIsLargest
  <1>6. ASSUME NEW n \in DOMAIN libs PROVE \E i \in LargestSupported : files[i].name = n
    BY <1>4 DEF LoadedOK
  <1>7. ASSUME NEW i \in LargestSupported PROVE graph[files[i].name] = files[i].deps
    <2>1. files[i].name \in DOMAIN libs /\ libs[files[i].name] = Found(i)
      BY <1>1, <1>2, <1>5
    <2> QED BY <1>1, <2>1 DEF Found
  <1> QED BY <1>1, <1>6, <1>7

\* A circle of names is one of files.
LEMMA CircleOfNames ==
    ASSUME FilesOK, LoadedOK, GraphOK, loader, FailedNames = {}
    PROVE  Cyclic(LargestSupported) <=> \E c \in SUBSET DOMAIN graph : Circle(c)
  <1>1. /\ DOMAIN graph = {files[i].name : i \in LargestSupported}
        /\ \A i \in LargestSupported : Children(files[i].name) = {d.name : d \in files[i].deps}
    BY ExactNames DEF Children
  <1>2. ASSUME Cyclic(LargestSupported) PROVE \E c \in SUBSET DOMAIN graph : Circle(c)
    <2>1. PICK s \in (SUBSET LargestSupported) \ {{}} :
             \A i \in s : \E j \in s : \E d \in files[i].deps : d.name = files[j].name
      BY <1>2 DEF Cyclic
    <2> DEFINE c == {files[i].name : i \in s}
    <2>2. c \in SUBSET DOMAIN graph /\ c # {}
      BY <1>1, <2>1
    <2>3. ASSUME NEW n \in c PROVE \E m \in c : m \in Children(n)
      <3>1. PICK i \in s : n = files[i].name
        BY <2>3
      <3>2. PICK j \in s : \E d \in files[i].deps : d.name = files[j].name
        BY <2>1, <3>1
      <3>3. files[j].name \in {d.name : d \in files[i].deps} /\ i \in LargestSupported
        BY <2>1, <3>2
      <3>4. files[j].name \in Children(files[i].name)
        BY <1>1, <3>3
      <3> QED BY <3>1, <3>4
    <2> QED BY <2>2, <2>3 DEF Circle
  <1>3. ASSUME NEW c \in SUBSET DOMAIN graph, Circle(c) PROVE Cyclic(LargestSupported)
    <2> DEFINE s == {i \in LargestSupported : files[i].name \in c}
    <2>1. PICK n \in c : TRUE
      BY <1>3 DEF Circle
    <2>2. s # {}
      BY <1>1, <2>1
    <2>3. ASSUME NEW i \in s PROVE \E j \in s : \E d \in files[i].deps : d.name = files[j].name
      <3>1. PICK m \in c : m \in Children(files[i].name)
        BY <1>3, <2>3 DEF Circle
      <3>2. PICK j \in LargestSupported : files[j].name = m
        BY <1>1, <3>1
      <3> QED BY <1>1, <2>3, <3>1, <3>2
    <2>4. s \in (SUBSET LargestSupported) \ {{}}
      BY <2>2
    <2> QED BY <2>3, <2>4 DEF Cyclic
  <1> QED BY <1>2, <1>3

-----------------------------------------------------------------------------
(* The steps.                                                                *)

LEMMA InitIInv == Init => IInv
  <1> SUFFICES ASSUME Init PROVE IInv
    OBVIOUS
  <1>1. /\ files \in Directories /\ next = 1 /\ libs = <<>> /\ path = <<>> /\ cur = NoName
        /\ server \in {"supernode", "wallet"} /\ phase = "config" /\ ended = "no" /\ loader = FALSE
        /\ routes = <<>>
    BY DEF Init, GraftletInit
  <1>2. PICK n \in 0 .. MaxFiles : files \in [1 .. n -> Libraries]
    BY <1>1 DEF Directories
  <1>3. files \in Seq(Libraries)
    BY <1>2, GraftletAssumption
  <1>4. FilesOK
    <2>1. Len(files) \in Nat
      BY <1>3
    <2>2. next \in 1 .. Len(files) + 1
      BY <1>1, <2>1
    <2> QED BY <1>1, <2>2 DEF FilesOK
  <1>5. LoadedOK
    <2>1. DOMAIN libs = {}
      BY <1>1
    <2>2. \A i \in Candidates : ~(i < next)
      BY <1>1, <1>4, FileTypes DEF Candidates
    <2> QED BY <2>1, <2>2 DEF LoadedOK
  <1>6. GraphOK /\ PhaseOK /\ CyclesOK /\ EndedOK
    BY <1>1 DEF GraphOK, PhaseOK, CyclesOK, EndedOK
  <1>7. RoutesOK
    BY <1>1 DEF RoutesOK
  <1> QED BY <1>1, <1>4, <1>5, <1>6, <1>7 DEF IInv

\* A step that leaves the graftlets alone.
LEMMA SameGraftlets ==
    ASSUME IInv, UNCHANGED <<graftletVars, loader>>
    PROVE  /\ FilesOK' /\ LoadedOK' /\ GraphOK' /\ FailedNames' = FailedNames
           /\ SearchOK => SearchOK'
           /\ (\A c \in SUBSET DOMAIN graph : ~Circle(c)) =>
                 (\A c \in SUBSET DOMAIN graph : ~Circle(c))'
           /\ Cyclic(LargestSupported)' <=> Cyclic(LargestSupported)
  <1>1. /\ files' = files /\ next' = next /\ libs' = libs /\ graph' = graph /\ color' = color
        /\ path' = path /\ cur' = cur /\ loader' = loader
    BY DEF graftletVars
  <1>2. FilesOK' /\ LoadedOK' /\ GraphOK'
    BY <1>1, FilesFixed DEF IInv, FilesOK, LoadedOK, GraphOK, Found
  <1>3. FailedNames' = FailedNames
    <2>1. \A n : Failed(n)' <=> Failed(n)
      BY <1>1 DEF Failed
    <2> QED BY <1>1, <2>1 DEF FailedNames
  <1>a. /\ \A n : Children(n)' = Children(n)
        /\ \A c : Of(c)' = Of(c)
    BY <1>1 DEF Children, Of
  <1>b. \A c : Circle(c)' <=> Circle(c)
    BY <1>a DEF Circle
  <1>4. SearchOK => SearchOK'
    BY <1>1, <1>a, <1>b DEF SearchOK
  <1>5. (\A c \in SUBSET DOMAIN graph : ~Circle(c)) => (\A c \in SUBSET DOMAIN graph : ~Circle(c))'
    BY <1>1, <1>b
  <1> QED BY <1>1, <1>2, <1>3, <1>4, <1>5, FilesFixed

LEMMA ServerStep ==
    ASSUME IInv, UNCHANGED <<graftletVars, loader, server>>,
           phase' # phase =>
              \/ <<phase, phase'>> \in {<<"config", "looper">>, <<"misc", "routers">>,
                                        <<"routers", "bind">>, <<"bind", "run">>, <<"run", "serving">>,
                                        <<"serving", "config">>}
              \/ phase = "looper" /\ phase' = (IF loader THEN "misc" ELSE "find")
              \/ /\ phase = "cycles" /\ phase' = "misc"
                 /\ \A c \in SUBSET DOMAIN graph : ~Circle(c),
           ended' = "cycle" => Cyclic(LargestSupported),
           RoutesOK'
    PROVE  IInv'
  <1>1. /\ FilesOK' /\ LoadedOK' /\ GraphOK' /\ FailedNames' = FailedNames
        /\ SearchOK => SearchOK'
        /\ (\A c \in SUBSET DOMAIN graph : ~Circle(c)) =>
              (\A c \in SUBSET DOMAIN graph : ~Circle(c))'
        /\ Cyclic(LargestSupported)' <=> Cyclic(LargestSupported)
    BY SameGraftlets
  <1>2. path' = path /\ cur' = cur /\ loader' = loader /\ server' = server
    BY DEF graftletVars
  <1>3. PhaseOK'
    BY <1>1, <1>2 DEF IInv, PhaseOK
  <1>4. CyclesOK'
    BY <1>1, <1>2 DEF IInv, PhaseOK, CyclesOK
  <1>5. EndedOK'
    BY <1>1 DEF EndedOK
  <1> QED BY <1>1, <1>2, <1>3, <1>4, <1>5 DEF IInv

\* The graftlets go on with the start; the server waits for them.
LEMMA FindIInv ==
    ASSUME IInv, phase = "find", FindGraftlet, UNCHANGED <<serverVars, server>>
    PROVE  IInv'
  <1>1. /\ next <= Len(files) /\ ~Throws /\ next' = next + 1
        /\ libs' = LET f == files[next] IN
                   IF Accepted(f) THEN With(libs, f.name, [version |-> f.version, deps |-> f.deps])
                   ELSE libs
        /\ files' = files /\ graph' = graph /\ color' = color /\ path' = path /\ cur' = cur
        /\ phase' = phase /\ ended' = ended /\ loader' = loader /\ routes' = routes
        /\ server' = server
    BY DEF FindGraftlet, serverVars
  <1>2. ~loader
    BY DEF IInv, PhaseOK
  <1>3. /\ Len(files) \in Nat /\ DOMAIN files = 1 .. Len(files) /\ next \in Nat /\ 1 <= next
        /\ next \in DOMAIN files
    BY <1>1, FileTypes DEF IInv, FilesOK
  <1>4. FilesOK'
    BY <1>1, <1>3 DEF IInv, FilesOK
  <1>5. next \in Candidates <=> Accepted(files[next])
    <2>1. ASSUME next \in Candidates PROVE Accepted(files[next])
      <3>1. files[next].kind = "loads" /\ ~is_in_GEL(files[next].name, files[next].version)
        BY <2>1 DEF Candidates
      <3>2. files[next].name \notin DOMAIN libs
        <4> SUFFICES ASSUME files[next].name \in DOMAIN libs PROVE FALSE
          OBVIOUS
        <4>1. PICK i \in Candidates : i < next /\ files[i].name = files[next].name
          BY DEF IInv, LoadedOK
        <4>2. i = next
          BY <2>1, <4>1, CandidatesDiffer DEF IInv
        <4> QED BY <1>3, <4>1, <4>2
      <3> QED BY <3>1, <3>2 DEF Accepted
    <2>2. ASSUME Accepted(files[next]), next \notin Candidates PROVE FALSE
      <3>1. PICK j \in 1 .. (next - 1) : /\ files[j].name = files[next].name
                                         /\ files[j].kind = "loads"
                                         /\ ~is_in_GEL(files[j].name, files[j].version)
        BY <1>3, <2>2 DEF Candidates, Accepted
      <3> DEFINE same == {k \in 1 .. (next - 1) : /\ files[k].name = files[next].name
                                                  /\ files[k].kind = "loads"
                                                  /\ ~is_in_GEL(files[k].name, files[k].version)}
      <3>2. same \subseteq Nat /\ same # {}
        BY <1>3, <3>1
      <3>3. PICK k \in same : \A l \in same : k <= l
        BY <3>2, LeastIs
      <3>4. k \in Candidates
        <4>1. k \in 1 .. (next - 1) /\ k \in DOMAIN files /\ k \in Nat
          BY <1>3, <3>3
        <4>2. ASSUME NEW l \in 1 .. (k - 1), files[l].name = files[k].name
              PROVE  files[l].kind # "loads" \/ is_in_GEL(files[l].name, files[l].version)
          <5>1. l \in 1 .. (next - 1) /\ ~(k <= l)
            BY <1>3, <4>1, <4>2
          <5>2. l \notin same
            BY <3>3, <5>1
          <5>3. files[l].name = files[next].name
            BY <3>3, <4>2
          <5> QED BY <5>1, <5>2, <5>3
        <4>3. files[k].kind = "loads" /\ ~is_in_GEL(files[k].name, files[k].version)
          BY <3>3
        <4> QED BY <4>1, <4>2, <4>3 DEF Candidates
      <3>5. k < next
        BY <1>3, <3>3
      <3>6. files[k].name \in DOMAIN libs
        BY <1>2, <3>4, <3>5 DEF IInv, LoadedOK
      <3>7. files[k].name = files[next].name
        BY <3>3
      <3> QED BY <2>2, <3>6, <3>7 DEF Accepted
    <2> QED BY <2>1, <2>2
  <1>6. LoadedOK'
    <2>1. Candidates' = Candidates /\ \A i : Found(i)' = Found(i)
      BY <1>1, FilesFixed DEF Found
    <2>2. \A i \in Candidates : i \in Nat
      BY <1>3 DEF Candidates
    <2>3. CASE ~Accepted(files[next])
      <3>1. libs' = libs
        BY <1>1, <2>3
      <3> QED BY <1>1, <1>2, <1>3, <1>5, <2>1, <2>2, <2>3, <3>1 DEF IInv, LoadedOK
    <2>4. CASE Accepted(files[next])
      <3>1. libs' = With(libs, files[next].name, Found(next))
        BY <1>1, <2>4 DEF Found
      <3>2. /\ DOMAIN libs' = DOMAIN libs \cup {files[next].name}
            /\ libs'[files[next].name] = Found(next)
            /\ \A n \in DOMAIN libs : n # files[next].name => libs'[n] = libs[n]
        BY <3>1 DEF With
      <3>3. ASSUME NEW n \in DOMAIN libs'
            PROVE  \E i \in Candidates : i < next' /\ files[i].name = n /\ libs'[n] = Found(i)
        <4>1. CASE n = files[next].name
          BY <1>1, <1>3, <1>5, <2>4, <3>2, <4>1
        <4>2. CASE n # files[next].name
          <5>1. PICK i \in Candidates : i < next /\ files[i].name = n /\ libs[n] = Found(i)
            BY <3>2, <3>3, <4>2 DEF IInv, LoadedOK
          <5> QED BY <1>1, <1>3, <2>2, <3>2, <3>3, <4>2, <5>1
        <4> QED BY <4>1, <4>2
      <3>4. ASSUME NEW i \in Candidates, i < next' PROVE files[i].name \in DOMAIN libs'
        <4>1. i = next \/ i < next
          BY <1>1, <1>3, <2>2, <3>4
        <4> QED BY <1>2, <3>2, <4>1 DEF IInv, LoadedOK
      <3> QED BY <1>1, <2>1, <3>3, <3>4 DEF LoadedOK
    <2> QED BY <2>3, <2>4
  <1>7. GraphOK' /\ PhaseOK' /\ CyclesOK' /\ EndedOK' /\ RoutesOK'
    BY <1>1, <1>2, FilesFixed DEF IInv, GraphOK, PhaseOK, CyclesOK, EndedOK, RoutesOK
  <1> QED BY <1>1, <1>4, <1>6, <1>7 DEF IInv

LEMMA InitializeIInv ==
    ASSUME IInv, phase = "find", InitializeGraph, phase' = "remove", loader' = TRUE,
           UNCHANGED <<ended, routes, server>>
    PROVE  IInv'
  <1>1. /\ next > Len(files) /\ graph' = [n \in DOMAIN libs |-> libs[n].deps]
        /\ \A n \in DOMAIN libs : libs[n].deps # TooLarge
        /\ files' = files /\ next' = next /\ libs' = libs /\ color' = color /\ path' = path
        /\ cur' = cur
    BY DEF InitializeGraph, InitializeThrows
  <1>2. ~loader /\ path = <<>> /\ cur = NoName
    BY DEF IInv, PhaseOK
  <1>3. FilesOK' /\ LoadedOK'
    BY <1>1, FilesFixed DEF IInv, FilesOK, LoadedOK, Found
  <1>4. ASSUME NEW i \in LargestSupported PROVE files[i].name \in DOMAIN libs
    <2>1. i \in Candidates /\ i \in DOMAIN files
      BY <1>4, LargestIsLargest DEF Candidates
    <2>2. i < next
      BY <1>1, <2>1, FileTypes DEF IInv
    <2> QED BY <1>2, <2>1, <2>2 DEF IInv, LoadedOK
  <1>5. GraphOK'
    BY <1>1, <1>4, FilesFixed DEF GraphOK
  <1>6. PhaseOK' /\ CyclesOK' /\ RoutesOK'
    BY <1>1, <1>2 DEF IInv, PhaseOK, CyclesOK, RoutesOK
  <1>7. EndedOK'
    BY <1>1, FilesFixed DEF IInv, EndedOK
  <1> QED BY <1>3, <1>5, <1>6, <1>7 DEF IInv

\* A library that is removed is in no set that is supported.
LEMMA RemoveIInv ==
    ASSUME IInv, phase = "remove", RemoveFailed, UNCHANGED <<serverVars, server>>
    PROVE  IInv'
  <1> DEFINE n == Least(FailedNames)
  <1>1. /\ FailedNames # {} /\ graph' = Without(graph, n) /\ libs' = Without(libs, n)
        /\ files' = files /\ next' = next /\ color' = color /\ path' = path /\ cur' = cur
        /\ phase' = phase /\ ended' = ended /\ loader' = loader /\ routes' = routes
        /\ server' = server
    BY DEF RemoveFailed, serverVars
  <1>2. /\ loader /\ next > Len(files) /\ graph = [m \in DOMAIN libs |-> libs[m].deps]
        /\ \A i \in LargestSupported : files[i].name \in DOMAIN libs
    BY DEF IInv, PhaseOK, GraphOK
  <1>3. n \in DOMAIN libs /\ Failed(n)
    <2>1. \A m \in DOMAIN libs : m \in Nat
      BY FileTypes DEF IInv, LoadedOK, Candidates
    <2>2. FailedNames \subseteq Nat
      BY <1>2, <2>1 DEF FailedNames
    <2>3. n \in FailedNames
      BY <1>1, <2>2, LeastIs
    <2> QED BY <1>2, <2>3 DEF FailedNames
  <1> HIDE DEF n
  <1>4. /\ DOMAIN libs' = DOMAIN libs \ {n}
        /\ \A m \in DOMAIN libs' : libs'[m] = libs[m]
        /\ graph' = [m \in DOMAIN libs' |-> libs'[m].deps]
    BY <1>1, <1>2 DEF Without
  <1>5. ASSUME NEW i \in LargestSupported PROVE files[i].name # n
    <2> SUFFICES ASSUME files[i].name = n PROVE FALSE
      OBVIOUS
    <2>1. i \in Candidates /\ files[i].deps \notin {BadFormat, TooLarge}
      BY LargestIsLargest DEF Supported
    <2>2. ASSUME NEW j \in LargestSupported PROVE libs[files[j].name] = Found(j)
      <3>1. j \in Candidates /\ files[j].name \in DOMAIN libs
        BY <1>2, LargestIsLargest
      <3>2. PICK k \in Candidates : files[k].name = files[j].name /\ libs[files[j].name] = Found(k)
        BY <3>1 DEF IInv, LoadedOK
      <3> QED BY <3>1, <3>2, CandidatesDiffer DEF IInv
    <2>3. graph[n] = files[i].deps
      <3>1. libs[n] = Found(i)
        BY <2>2
      <3>2. libs[n].deps = files[i].deps
        BY <3>1 DEF Found
      <3> QED BY <1>2, <1>3, <3>2
    <2>4. PICK d \in files[i].deps : d.name \notin DOMAIN graph \/ libs[d.name].version < d.minver
      BY <1>3, <2>1, <2>3 DEF Failed
    <2>5. PICK j \in LargestSupported : files[j].name = d.name /\ d.minver <= files[j].version
      BY <2>4, LargestIsLargest DEF Supported
    <2>6. d.name \in DOMAIN graph /\ libs[d.name].version = files[j].version
      <3>1. d.name \in DOMAIN graph /\ libs[d.name] = Found(j)
        BY <1>2, <2>2, <2>5
      <3> QED BY <3>1 DEF Found
    <2>7. d.minver \in Nat /\ files[j].version \in Nat
      <3>1. i \in DOMAIN files /\ j \in DOMAIN files
        BY <2>1, LargestIsLargest DEF Candidates
      <3> QED BY <2>1, <2>4, <3>1, FileTypes DEF IInv
    <2> QED BY <2>4, <2>5, <2>6, <2>7
  <1>6. FilesOK' /\ LoadedOK'
    BY <1>1, <1>2, <1>4, FilesFixed DEF IInv, FilesOK, LoadedOK, Found
  <1>a. \A m \in DOMAIN libs' : libs'[m].deps # TooLarge
    BY <1>2, <1>4 DEF IInv, GraphOK
  <1>7. GraphOK'
    BY <1>1, <1>2, <1>4, <1>5, <1>a, FilesFixed DEF GraphOK
  <1>8. PhaseOK' /\ CyclesOK' /\ RoutesOK'
    BY <1>1, <1>2 DEF IInv, PhaseOK, CyclesOK, RoutesOK
  <1>9. EndedOK'
    BY <1>1, FilesFixed DEF IInv, EndedOK
  <1> QED BY <1>1, <1>6, <1>7, <1>8, <1>9 DEF IInv

\* The search changes colours, path and vertex only.
LEMMA SearchStep ==
    ASSUME IInv, UNCHANGED <<files, next, libs, graph, loader, routes, ended, server>>,
           FailedNames = {}, phase \in {"remove", "cycles"}, phase' = "cycles", SearchOK'
    PROVE  IInv'
  <1>1. loader
    BY DEF IInv, PhaseOK
  <1>2. FailedNames' = FailedNames
    <2>1. \A n : Failed(n)' <=> Failed(n)
      BY DEF Failed
    <2> QED BY <2>1 DEF FailedNames
  <1>3. FilesOK' /\ LoadedOK' /\ GraphOK'
    BY FilesFixed DEF IInv, FilesOK, LoadedOK, GraphOK, Found
  <1>4. PhaseOK' /\ CyclesOK' /\ RoutesOK'
    BY <1>1, <1>2 DEF IInv, PhaseOK, CyclesOK, RoutesOK
  <1>5. EndedOK'
    BY FilesFixed DEF IInv, EndedOK
  <1> QED BY <1>3, <1>4, <1>5 DEF IInv

LEMMA PaintIInv ==
    ASSUME IInv, phase = "remove", Paint, phase' = "cycles", UNCHANGED <<loader, routes, ended, server>>
    PROVE  IInv'
  <1>1. /\ FailedNames = {} /\ color' = [n \in DOMAIN graph |-> "white"]
        /\ files' = files /\ next' = next /\ libs' = libs /\ graph' = graph
        /\ path' = path /\ cur' = cur /\ path = <<>> /\ cur = NoName
    BY DEF Paint, IInv, PhaseOK
  <1>2. /\ color' \in [DOMAIN graph -> {"white", "gray", "black"}]
        /\ Of("gray")' = {} /\ Of("black")' = {}
    BY <1>1 DEF Of
  <1>3. ASSUME NEW c \in SUBSET Of("black")' PROVE ~Circle(c)'
    BY <1>2, <1>3 DEF Circle
  <1>4. path' \in Seq(DOMAIN graph) /\ Len(path') = 0 /\ DOMAIN path' = {}
    BY <1>1
  <1>5. SearchOK'
    BY <1>1, <1>2, <1>3, <1>4 DEF SearchOK
  <1> QED BY <1>1, <1>5, SearchStep

-----------------------------------------------------------------------------
(* The search.                                                               *)

LEMMA Inside == \A l \in Nat : \A k \in 1 .. l : \A i \in k .. l :
                    i # l => i \in 1 .. l - 1 /\ i + 1 \in 1 .. l /\ i + 1 \in k .. l /\ i \in 1 .. l
  OBVIOUS

\* In the search no library has a dependency that is not there.
LEMMA ChildrenThere ==
    ASSUME IInv, phase = "cycles"
    PROVE  /\ SearchOK /\ loader /\ FailedNames = {}
           /\ \A n \in DOMAIN graph : Children(n) \subseteq DOMAIN graph
           /\ NoName \notin DOMAIN graph
           /\ DOMAIN graph \subseteq Nat
  <1>1. SearchOK /\ loader /\ FailedNames = {}
    BY DEF IInv, CyclesOK, PhaseOK
  <1>2. \A n \in DOMAIN graph : ~Failed(n)
    BY <1>1 DEF FailedNames
  <1>3. \A n \in DOMAIN graph : Children(n) \subseteq DOMAIN graph
    BY <1>2 DEF Failed, Children
  <1>4. \A n \in DOMAIN libs : n \in Names
    BY FileTypes DEF IInv, LoadedOK, Candidates
  <1>5. DOMAIN graph = DOMAIN libs
    BY <1>1 DEF IInv, GraphOK
  <1> QED BY <1>1, <1>3, <1>4, <1>5, GraftletAssumption

LEMMA PickWhiteIInv ==
    ASSUME IInv, phase = "cycles", PickWhite, UNCHANGED <<serverVars, server>>
    PROVE  IInv'
  <1>1. /\ cur = NoName /\ Of("white") # {} /\ cur' = Least(Of("white"))
        /\ color' = [color EXCEPT ![cur'] = "gray"]
        /\ files' = files /\ next' = next /\ libs' = libs /\ graph' = graph /\ path' = path
        /\ phase' = phase /\ ended' = ended /\ loader' = loader /\ routes' = routes
        /\ server' = server
    BY DEF PickWhite, serverVars
  <1>2. /\ color \in [DOMAIN graph -> {"white", "gray", "black"}]
        /\ path = <<>> /\ Of("gray") = {} /\ path \in Seq(DOMAIN graph)
        /\ \A n \in Of("black") : Children(n) \subseteq Of("black")
        /\ \A c \in SUBSET Of("black") : ~Circle(c)
    BY <1>1, ChildrenThere DEF SearchOK
  <1>3. cur' \in Of("white") /\ cur' \in DOMAIN graph /\ cur' # NoName
    <2>1. Of("white") \subseteq DOMAIN graph
      BY <1>2 DEF Of
    <2>2. Of("white") \subseteq Nat
      BY <2>1, ChildrenThere
    <2>3. cur' \in Of("white")
      BY <1>1, <2>2, LeastIs
    <2> QED BY <2>1, <2>3, ChildrenThere
  <1>4. /\ color' \in [DOMAIN graph -> {"white", "gray", "black"}]
        /\ Of("gray")' = {cur'} /\ Of("black")' = Of("black")
    <2>1. color[cur'] = "white"
      BY <1>3 DEF Of
    <2>2. \A n \in DOMAIN graph : color[n] # "gray"
      BY <1>2 DEF Of
    <2> QED BY <1>1, <1>2, <1>3, <2>1, <2>2 DEF Of
  <1>5. \A n : Children(n)' = Children(n)
    BY <1>1 DEF Children
  <1>6. \A c : Circle(c)' <=> Circle(c)
    BY <1>5 DEF Circle
  <1>7. Len(path) = 0 /\ DOMAIN path = {}
    BY <1>2
  <1>8. SearchOK'
    BY <1>1, <1>2, <1>3, <1>4, <1>5, <1>6, <1>7 DEF SearchOK
  <1> QED BY <1>1, <1>8, ChildrenThere, SearchStep

LEMMA DescendIInv ==
    ASSUME IInv, phase = "cycles", NEW child \in DOMAIN graph, Descend(child),
           UNCHANGED <<serverVars, server>>
    PROVE  IInv'
  <1>1. /\ cur # NoName /\ child \in Children(cur) /\ color[child] = "white"
        /\ path' = Append(path, cur) /\ cur' = child
        /\ color' = [color EXCEPT ![child] = "gray"]
        /\ files' = files /\ next' = next /\ libs' = libs /\ graph' = graph
        /\ phase' = phase /\ ended' = ended /\ loader' = loader /\ routes' = routes
        /\ server' = server
    BY DEF Descend, serverVars
  <1>2. SearchOK /\ NoName \notin DOMAIN graph
    BY ChildrenThere
  <1>3. cur \in DOMAIN graph /\ path \in Seq(DOMAIN graph) /\ child # NoName
    BY <1>1, <1>2 DEF SearchOK
  <1>4. /\ Len(path) \in Nat /\ DOMAIN path = 1 .. Len(path)
        /\ path' \in Seq(DOMAIN graph) /\ Len(path') = Len(path) + 1
        /\ DOMAIN path' = 1 .. Len(path) + 1
        /\ path'[Len(path) + 1] = cur
        /\ \A i \in 1 .. Len(path) : path'[i] = path[i]
    BY <1>1, <1>3
  <1>5. /\ color' \in [DOMAIN graph -> {"white", "gray", "black"}]
        /\ Of("gray")' = Of("gray") \cup {child} /\ Of("black")' = Of("black")
    BY <1>1, <1>2 DEF SearchOK, Of
  <1>6. \A n : Children(n)' = Children(n)
    BY <1>1 DEF Children
  <1>7. \A c : Circle(c)' <=> Circle(c)
    BY <1>6 DEF Circle
  <1>8. Of("gray") = {path[i] : i \in DOMAIN path} \cup {cur}
    BY <1>1, <1>2 DEF SearchOK
  <1>9. Of("gray")' = {path'[i] : i \in DOMAIN path'} \cup {cur'}
    <2>1. \A x : x \in {path'[i] : i \in DOMAIN path'} <=> x \in {path[i] : i \in DOMAIN path} \cup {cur}
      BY <1>4
    <2> QED BY <1>1, <1>5, <1>8, <2>1
  <1>10. \A i \in DOMAIN path' : path'[i] # cur'
    <2>1. child \notin Of("gray")
      BY <1>1 DEF Of
    <2>2. \A i \in DOMAIN path : path[i] # child
      BY <1>8, <2>1
    <2>3. cur # child
      BY <1>8, <2>1
    <2> QED BY <1>1, <1>4, <2>2, <2>3
  <1>11. cur' \in Children(path'[Len(path')])
    BY <1>1, <1>4
  <1>12. \A i, j \in DOMAIN path' : i # j => path'[i] # path'[j]
    <2>1. \A i, j \in DOMAIN path : i # j => path[i] # path[j]
      BY <1>2 DEF SearchOK
    <2>2. \A i \in DOMAIN path : path[i] # cur
      BY <1>1, <1>2 DEF SearchOK
    <2> QED BY <1>4, <2>1, <2>2
  <1>13. \A i \in 1 .. Len(path') - 1 : path'[i + 1] \in Children(path'[i])
    <2> SUFFICES ASSUME NEW i \in 1 .. Len(path) PROVE path'[i + 1] \in Children(path'[i])
      BY <1>4
    <2>0. i \in i .. Len(path)
      BY <1>4
    <2>1. CASE i = Len(path)
      <3>1. path # <<>>
        <4>1. Len(path) # 0
          BY <1>4, <2>1
        <4> QED BY <4>1
      <3>2. cur \in Children(path[Len(path)])
        BY <1>1, <1>2, <3>1 DEF SearchOK
      <3> QED BY <1>4, <2>1, <3>2
    <2>2. CASE i # Len(path)
      <3>1. i \in 1 .. Len(path) - 1 /\ i + 1 \in 1 .. Len(path)
        BY <1>4, <2>0, <2>2, Inside
      <3>2. path[i + 1] \in Children(path[i])
        BY <1>2, <3>1 DEF SearchOK
      <3> QED BY <1>4, <3>1, <3>2
    <2> QED BY <2>1, <2>2
  <1>14. /\ \A n \in Of("black")' : Children(n)' \subseteq Of("black")'
         /\ \A c \in SUBSET Of("black")' : ~Circle(c)'
    BY <1>2, <1>5, <1>6, <1>7 DEF SearchOK
  <1>15. SearchOK'
    BY <1>1, <1>3, <1>4, <1>5, <1>6, <1>9, <1>10, <1>11, <1>12, <1>13, <1>14 DEF SearchOK
  <1> QED BY <1>1, <1>15, ChildrenThere, SearchStep

\* A vertex turns black when all its children are.
LEMMA StepBackIInv ==
    ASSUME IInv, phase = "cycles", StepBack, UNCHANGED <<serverVars, server>>
    PROVE  IInv'
  <1>1. /\ cur # NoName /\ \A child \in Children(cur) : color[child] = "black"
        /\ color' = [color EXCEPT ![cur] = "black"]
        /\ cur' = (IF path = <<>> THEN NoName ELSE path[Len(path)])
        /\ path' = (IF path = <<>> THEN path ELSE SubSeq(path, 1, Len(path) - 1))
        /\ files' = files /\ next' = next /\ libs' = libs /\ graph' = graph
        /\ phase' = phase /\ ended' = ended /\ loader' = loader /\ routes' = routes
        /\ server' = server
    BY DEF StepBack, serverVars
  <1>2. /\ SearchOK /\ NoName \notin DOMAIN graph
        /\ \A n \in DOMAIN graph : Children(n) \subseteq DOMAIN graph
    BY ChildrenThere
  <1>3. /\ cur \in DOMAIN graph /\ path \in Seq(DOMAIN graph) /\ Len(path) \in Nat
        /\ DOMAIN path = 1 .. Len(path)
        /\ color \in [DOMAIN graph -> {"white", "gray", "black"}]
    BY <1>1, <1>2 DEF SearchOK
  <1>4. /\ Of("gray") = {path[i] : i \in DOMAIN path} \cup {cur}
        /\ \A i \in DOMAIN path : path[i] # cur
    BY <1>1, <1>2 DEF SearchOK
  <1>5. /\ color' \in [DOMAIN graph -> {"white", "gray", "black"}]
        /\ Of("gray")' = Of("gray") \ {cur} /\ Of("black")' = Of("black") \cup {cur}
    BY <1>1, <1>3 DEF Of
  <1>6. \A n : Children(n)' = Children(n)
    BY <1>1 DEF Children
  <1>7. \A c : Circle(c)' <=> Circle(c)
    BY <1>6 DEF Circle
  <1>8. Of("gray")' = {path[i] : i \in DOMAIN path}
    BY <1>4, <1>5
  <1>9. Children(cur) \subseteq Of("black") /\ cur \notin Of("black")
    <2>1. Children(cur) \subseteq Of("black")
      BY <1>1, <1>2, <1>3 DEF Of
    <2>2. cur \in Of("gray")
      BY <1>4
    <2> QED BY <2>1, <2>2 DEF Of
  <1>10. \A n \in Of("black")' : Children(n)' \subseteq Of("black")'
    BY <1>2, <1>5, <1>6, <1>9 DEF SearchOK
  <1>11. ASSUME NEW c \in SUBSET Of("black")', Circle(c)' PROVE FALSE
    <2>1. Circle(c)
      BY <1>7, <1>11
    <2>2. \A n \in Of("black") : Children(n) \subseteq Of("black")
      BY <1>2 DEF SearchOK
    <2> DEFINE rest == c \ {cur}
    <2>3. rest \in SUBSET Of("black")
      BY <1>5, <1>11
    <2>4. rest # {}
      <3>1. PICK n \in c : TRUE
        BY <2>1 DEF Circle
      <3>2. CASE n # cur
        BY <3>2
      <3>3. CASE n = cur
        <4>1. PICK m \in c : m \in Children(cur)
          BY <2>1, <3>3 DEF Circle
        <4>2. m # cur
          BY <1>9, <4>1
        <4> QED BY <4>1, <4>2
      <3> QED BY <3>2, <3>3
    <2>5. ASSUME NEW n \in rest PROVE \E m \in rest : m \in Children(n)
      <3>1. PICK m \in c : m \in Children(n)
        BY <2>1 DEF Circle
      <3>2. m \in Of("black")
        BY <2>2, <2>3, <3>1
      <3>3. m # cur
        BY <1>9, <3>2
      <3> QED BY <3>1, <3>3
    <2>6. Circle(rest)
      BY <2>4, <2>5 DEF Circle
    <2> QED BY <1>2, <2>3, <2>6 DEF SearchOK
  <1>12. CASE path = <<>>
    <2>1. cur' = NoName /\ path' = <<>>
      BY <1>1, <1>12
    <2>2. Len(path') = 0 /\ DOMAIN path' = {} /\ path' \in Seq(DOMAIN graph)
      BY <2>1
    <2>3. Of("gray")' = {}
      BY <1>8, <1>12
    <2>4. SearchOK'
      BY <1>1, <1>5, <1>10, <1>11, <2>1, <2>2, <2>3 DEF SearchOK
    <2> QED BY <1>1, <2>4, ChildrenThere, SearchStep
  <1>13. CASE path # <<>>
    <2>1. Len(path) >= 1 /\ path[Len(path)] \in DOMAIN graph
      BY <1>3, <1>13
    <2>2. /\ cur' = path[Len(path)] /\ cur' \in DOMAIN graph /\ cur' # NoName
          /\ path' = SubSeq(path, 1, Len(path) - 1)
      BY <1>1, <1>2, <1>13, <2>1
    <2>3. /\ path' \in Seq(DOMAIN graph) /\ Len(path') = Len(path) - 1
          /\ DOMAIN path' = 1 .. Len(path) - 1
          /\ \A i \in 1 .. Len(path) - 1 : path'[i] = path[i]
      BY <1>3, <2>1, <2>2
    <2>4. Of("gray")' = {path'[i] : i \in DOMAIN path'} \cup {cur'}
      <3>1. \A i : i \in DOMAIN path <=> i \in DOMAIN path' \/ i = Len(path)
        BY <1>3, <2>1, <2>3
      <3>2. \A x : x \in {path[i] : i \in DOMAIN path} <=>
                      x \in {path'[i] : i \in DOMAIN path'} \cup {cur'}
        BY <2>2, <2>3, <3>1
      <3> QED BY <1>8, <3>2
    <2>5. /\ \A i \in DOMAIN path' : path'[i] # cur'
          /\ \A i, j \in DOMAIN path' : i # j => path'[i] # path'[j]
      <3>1. \A i, j \in DOMAIN path : i # j => path[i] # path[j]
        BY <1>2 DEF SearchOK
      <3> QED BY <1>3, <2>1, <2>2, <2>3, <3>1
    <2>6. ASSUME NEW i \in 1 .. Len(path') - 1 PROVE path'[i + 1] \in Children(path'[i])
      <3>1. i \in 1 .. Len(path) - 1 /\ i + 1 \in 1 .. Len(path) - 1
        BY <1>3, <2>1, <2>3, <2>6
      <3>2. path[i + 1] \in Children(path[i])
        BY <1>2, <3>1 DEF SearchOK
      <3> QED BY <2>3, <3>1, <3>2
    <2>7. path' # <<>> => cur' \in Children(path'[Len(path')])
      <3> SUFFICES ASSUME path' # <<>> PROVE cur' \in Children(path'[Len(path')])
        OBVIOUS
      <3>1. Len(path') # 0
        BY <2>3
      <3>2. Len(path) - 1 \in 1 .. Len(path) - 1 /\ (Len(path) - 1) + 1 = Len(path)
        BY <1>3, <2>1, <2>3, <3>1
      <3>3. path[(Len(path) - 1) + 1] \in Children(path[Len(path) - 1])
        BY <1>2, <3>2 DEF SearchOK
      <3> QED BY <2>2, <2>3, <3>2, <3>3
    <2>8. SearchOK'
      BY <1>1, <1>5, <1>6, <1>10, <1>11, <2>2, <2>3, <2>4, <2>5, <2>6, <2>7 DEF SearchOK
    <2> QED BY <1>1, <2>8, ChildrenThere, SearchStep
  <1> QED BY <1>12, <1>13

\* A gray child closes a circle: the path from it to the vertex the search is at.
LEMMA CycleIsThere ==
    ASSUME IInv, phase = "cycles", CycleFound
    PROVE  Cyclic(LargestSupported)
  <1>1. PICK child \in Children(cur) : color[child] = "gray"
    BY DEF CycleFound
  <1>2. /\ SearchOK /\ loader /\ FailedNames = {} /\ cur # NoName
        /\ \A n \in DOMAIN graph : Children(n) \subseteq DOMAIN graph
    BY ChildrenThere DEF CycleFound
  <1>3. /\ cur \in DOMAIN graph /\ path \in Seq(DOMAIN graph) /\ Len(path) \in Nat
        /\ DOMAIN path = 1 .. Len(path)
        /\ Of("gray") = {path[i] : i \in DOMAIN path} \cup {cur}
        /\ DOMAIN color = DOMAIN graph
    BY <1>2 DEF SearchOK
  <1>4. child \in Of("gray")
    BY <1>1, <1>2, <1>3 DEF Of
  <1>5. CASE child = cur
    <2>1. Circle({cur}) /\ {cur} \in SUBSET DOMAIN graph
      BY <1>1, <1>3, <1>5 DEF Circle
    <2> QED BY <1>2, <2>1, CircleOfNames DEF IInv
  <1>6. CASE child # cur
    <2>1. PICK k \in 1 .. Len(path) : path[k] = child
      BY <1>3, <1>4, <1>6
    <2> DEFINE c == {path[i] : i \in k .. Len(path)} \cup {cur}
    <2>2. c \in SUBSET DOMAIN graph /\ c # {}
      BY <1>3, <2>1
    <2>3. ASSUME NEW n \in c PROVE \E m \in c : m \in Children(n)
      <3>1. CASE n = cur
        <4>1. child \in c
          BY <1>3, <2>1
        <4> QED BY <1>1, <3>1, <4>1
      <3>2. ASSUME NEW i \in k .. Len(path), n = path[i] PROVE \E m \in c : m \in Children(n)
        <4>1. CASE i = Len(path)
          <5>1. path # <<>>
            <6>1. Len(path) # 0
              BY <1>3, <2>1
            <6> QED BY <6>1
          <5>2. cur \in Children(path[Len(path)])
            BY <1>2, <5>1 DEF SearchOK
          <5> QED BY <3>2, <4>1, <5>2
        <4>2. CASE i # Len(path)
          <5>1. i \in 1 .. Len(path) - 1 /\ i + 1 \in k .. Len(path)
            BY <1>3, <2>1, <3>2, <4>2, Inside
          <5>2. path[i + 1] \in Children(path[i])
            BY <1>2, <5>1 DEF SearchOK
          <5>3. path[i + 1] \in c
            BY <5>1
          <5> QED BY <3>2, <5>2, <5>3
        <4> QED BY <4>1, <4>2
      <3> QED BY <2>3, <3>1, <3>2
    <2>4. Circle(c)
      BY <2>2, <2>3 DEF Circle
    <2> QED BY <1>2, <2>2, <2>4, CircleOfNames DEF IInv
  <1> QED BY <1>5, <1>6

\* When nothing is white or gray there is no circle.
LEMMA NoCycleLeft ==
    ASSUME IInv, phase = "cycles", SearchDone
    PROVE  \A c \in SUBSET DOMAIN graph : ~Circle(c)
  <1>1. SearchOK /\ cur = NoName /\ Of("white") = {}
    BY ChildrenThere DEF SearchDone
  <1>2. Of("gray") = {} /\ color \in [DOMAIN graph -> {"white", "gray", "black"}]
    BY <1>1 DEF SearchOK
  <1>3. DOMAIN graph = Of("black")
    BY <1>1, <1>2 DEF Of
  <1> QED BY <1>1, <1>3 DEF SearchOK

-----------------------------------------------------------------------------
(* The routes.                                                               *)

\* The routes of a set of graftlets from those of all but the first.
Body(g, s) == IF s = {} THEN <<>> ELSE g[s \ {Least(s)}] \o Endpoints[Least(s)]

Small(D, k) == {s \in SUBSET D : Cardinality(s) <= k}

LEMMA SetInduction ==
    ASSUME NEW P, P \subseteq Nat, 0 \in P, \A k \in P : k + 1 \in P
    PROVE  P = Nat
  <1> SUFFICES ASSUME Nat \ P # {} PROVE FALSE
    OBVIOUS
  <1>1. PICK m \in Nat \ P : \A y \in Nat \ P : m <= y
    BY LeastIs
  <1>2. m # 0
    OBVIOUS
  <1>3. m - 1 \in Nat /\ ~(m <= m - 1)
    BY <1>2
  <1>4. m - 1 \in P
    BY <1>1, <1>3
  <1>5. (m - 1) + 1 \in P
    BY <1>4
  <1> QED BY <1>3, <1>5

LEMMA Smaller ==
    ASSUME NEW D, IsFiniteSet(D), D \subseteq Names, NEW s \in SUBSET D, s # {}
    PROVE  /\ Least(s) \in s /\ Least(s) \in Names
           /\ s \ {Least(s)} \in SUBSET D
           /\ Cardinality(s) \in Nat
           /\ Cardinality(s \ {Least(s)}) = Cardinality(s) - 1
  <1>1. IsFiniteSet(s)
    BY FS_Subset
  <1>2. Least(s) \in s
    BY LeastIs, GraftletAssumption
  <1>3. Cardinality(s) \in Nat
    BY <1>1, FS_CardinalityType
  <1>4. Cardinality(s \ {Least(s)}) = Cardinality(s) - 1
    BY <1>1, <1>2, FS_RemoveElement
  <1> QED BY <1>2, <1>3, <1>4

LEMMA RoutesExist ==
    ASSUME NEW D, IsFiniteSet(D), D \subseteq Names
    PROVE  \E g : g = [s \in SUBSET D |-> Body(g, s)]
  <1> DEFINE P == {k \in Nat : \E g : g = [s \in Small(D, k) |-> Body(g, s)]}
  <1>0. \A s \in SUBSET D : Cardinality(s) \in Nat
    BY FS_Subset, FS_CardinalityType
  <1>1. 0 \in P
    <2> DEFINE g == [s \in Small(D, 0) |-> <<>>]
    <2>1. ASSUME NEW s \in Small(D, 0) PROVE s = {}
      <3>1. Cardinality(s) = 0 /\ IsFiniteSet(s)
        BY <1>0, FS_Subset DEF Small
      <3> QED BY <3>1, FS_EmptySet
    <2>2. g = [s \in Small(D, 0) |-> Body(g, s)]
      BY <2>1 DEF Body
    <2> QED BY <2>2
  <1>2. ASSUME NEW k \in P PROVE k + 1 \in P
    <2>1. PICK f : f = [s \in Small(D, k) |-> Body(f, s)]
      BY <1>2
    <2> DEFINE g == [s \in Small(D, k + 1) |-> Body(f, s)]
    <2>2. ASSUME NEW s \in Small(D, k + 1) PROVE Body(g, s) = Body(f, s)
      <3>1. CASE s = {}
        BY <3>1 DEF Body
      <3>2. CASE s # {}
        <4> DEFINE t == s \ {Least(s)}
        <4>1. /\ t \in SUBSET D /\ Cardinality(t) = Cardinality(s) - 1 /\ Cardinality(s) \in Nat
              /\ Cardinality(s) <= k + 1 /\ k \in Nat
          BY <1>2, <2>2, <3>2, Smaller DEF Small
        <4>2. Cardinality(t) <= k /\ Cardinality(t) <= k + 1
          BY <4>1
        <4>3. t \in Small(D, k) /\ t \in Small(D, k + 1)
          BY <4>1, <4>2 DEF Small
        <4>a. \A x : Body(x, s) = x[t] \o Endpoints[Least(s)]
          BY <3>2 DEF Body
        <4> HIDE DEF t
        <4>4. g[t] = f[t]
          BY <2>1, <4>3
        <4> HIDE DEF g
        <4> QED BY <4>4, <4>a
      <3> QED BY <3>1, <3>2
    <2>3. g = [s \in Small(D, k + 1) |-> Body(g, s)]
      BY <2>2
    <2>4. \E h : h = [s \in Small(D, k + 1) |-> Body(h, s)]
      BY <2>3
    <2> QED BY <1>2, <2>4
  <1>3. P = Nat
    <2>1. P \subseteq Nat
      OBVIOUS
    <2> HIDE DEF P
    <2> QED BY <1>1, <1>2, <2>1, SetInduction
  <1>4. Cardinality(D) \in P
    BY <1>3, FS_CardinalityType
  <1>5. PICK g : g = [s \in Small(D, Cardinality(D)) |-> Body(g, s)]
    BY <1>4
  <1>6. Small(D, Cardinality(D)) = SUBSET D
    BY FS_Subset DEF Small
  <1> QED BY <1>5, <1>6

LEMMA Concatenated == \A S : \A a, b \in Seq(S) : a \o b \in Seq(S)
  OBVIOUS

\* The routes of the graftlets and of the server: none has the path of the callback route.
OtherRoutes == {r \in Routes : r.path # "callback"}

LEMMA OtherSequence ==
    ASSUME NEW r \in Seq(Routes), \A x \in RouteSet(r) : x.path # "callback"
    PROVE  r \in Seq(OtherRoutes)
  <1>1. \A i \in 1 .. Len(r) : r[i] \in Routes /\ r[i].path # "callback"
    BY DEF RouteSet
  <1>2. \A i \in 1 .. Len(r) : r[i] \in OtherRoutes
    BY <1>1 DEF OtherRoutes
  <1> HIDE DEF OtherRoutes
  <1> QED BY <1>2

LEMMA EndpointRoutes ==
    /\ \A n \in Names : Endpoints[n] \in Seq(OtherRoutes)
    /\ OwnRoutes \in Seq(OtherRoutes)
  <1>1. ASSUME NEW n \in Names PROVE Endpoints[n] \in Seq(OtherRoutes)
    <2>1. Endpoints[n] \in Seq(Routes) /\ \A x \in RouteSet(Endpoints[n]) : x.path # "callback"
      BY RoutesAssumption
    <2> QED BY <2>1, OtherSequence
  <1>2. OwnRoutes \in Seq(OtherRoutes)
    <2>1. OwnRoutes \in Seq(Routes) /\ \A x \in RouteSet(OwnRoutes) : x.path # "callback"
      BY RoutesAssumption DEF OwnRoutes
    <2> QED BY <2>1, OtherSequence
  <1> QED BY <1>1, <1>2

LEMMA RoutesTyped ==
    ASSUME NEW D, IsFiniteSet(D), D \subseteq Names, NEW g, g = [s \in SUBSET D |-> Body(g, s)]
    PROVE  g[D] \in Seq(OtherRoutes)
  <1> DEFINE P == {k \in Nat : \A s \in SUBSET D : Cardinality(s) = k => g[s] \in Seq(OtherRoutes)}
  <1>1. 0 \in P
    <2>1. ASSUME NEW s \in SUBSET D, Cardinality(s) = 0 PROVE g[s] \in Seq(OtherRoutes)
      <3>1. s = {}
        BY <2>1, FS_Subset, FS_EmptySet
      <3>2. g[s] = Body(g, s)
        OBVIOUS
      <3>3. <<>> \in Seq(OtherRoutes)
        OBVIOUS
      <3> QED BY <3>1, <3>2, <3>3 DEF Body
    <2> QED BY <2>1
  <1>2. ASSUME NEW k \in P PROVE k + 1 \in P
    <2>1. ASSUME NEW s \in SUBSET D, Cardinality(s) = k + 1 PROVE g[s] \in Seq(OtherRoutes)
      <3>0. k \in Nat /\ k + 1 # 0
        BY <1>2
      <3>a. Cardinality({}) = 0
        BY FS_EmptySet
      <3>1. s # {}
        BY <2>1, <3>0, <3>a
      <3> DEFINE t == s \ {Least(s)}
      <3>b. /\ Least(s) \in Names /\ t \in SUBSET D
            /\ Cardinality(t) = Cardinality(s) - 1
        BY <2>1, <3>1, Smaller
      <3>2. Cardinality(t) = k
        BY <2>1, <3>0, <3>b
      <3> HIDE DEF t
      <3>3. g[t] \in Seq(OtherRoutes)
        BY <1>2, <3>b, <3>2
      <3>c. Endpoints[Least(s)] \in Seq(OtherRoutes)
        BY <3>b, EndpointRoutes
      <3>d. g[s] = Body(g, s)
        BY <2>1
      <3>4. g[s] = g[t] \o Endpoints[Least(s)]
        BY <3>1, <3>d DEF Body, t
      <3>5. g[t] \o Endpoints[Least(s)] \in Seq(OtherRoutes)
        BY <3>3, <3>c, Concatenated
      <3> QED BY <3>4, <3>5, Zenon
    <2>2. k + 1 \in Nat
      BY <1>2
    <2> QED BY <2>1, <2>2
  <1>3. P = Nat
    <2>1. P \subseteq Nat
      OBVIOUS
    <2> HIDE DEF P
    <2> QED BY <1>1, <1>2, <2>1, SetInduction
  <1>4. Cardinality(D) \in P
    BY <1>3, FS_CardinalityType
  <1> QED BY <1>4

LEMMA GraftletRoutesType == ASSUME IInv PROVE GraftletRoutes \in Seq(OtherRoutes)
  <1>1. IsFiniteSet(DOMAIN libs) /\ DOMAIN libs \subseteq Names
    <2>1. DOMAIN files = 1 .. Len(files) /\ Len(files) \in Nat
      BY FileTypes DEF IInv
    <2>2. IsFiniteSet(DOMAIN files)
      BY <2>1, FS_Interval
    <2> DEFINE T == {files[i].name : i \in DOMAIN files}
               f == [i \in DOMAIN files |-> files[i].name]
    <2>a. f \in Surjection(DOMAIN files, T)
      BY DEF Surjection
    <2>3. IsFiniteSet(T)
      <3> HIDE DEF f, T
      <3> QED BY <2>2, <2>a, FS_Surjection
    <2>4. DOMAIN libs \subseteq T
      BY DEF IInv, LoadedOK, Candidates
    <2>5. \A i \in DOMAIN files : files[i].name \in Names
      BY FileTypes DEF IInv
    <2>6. T \subseteq Names
      BY <2>5
    <2> HIDE DEF T
    <2> QED BY <2>3, <2>4, <2>6, FS_Subset
  <1>2. GraftletRoutes = (CHOOSE g : g = [s \in SUBSET DOMAIN libs |-> Body(g, s)])[DOMAIN libs]
    BY DEF GraftletRoutes, EndpointsOf, Body
  <1>3. \E g : g = [s \in SUBSET DOMAIN libs |-> Body(g, s)]
    BY <1>1, RoutesExist
  <1>4. PICK h : h = (CHOOSE g : g = [s \in SUBSET DOMAIN libs |-> Body(g, s)])
    OBVIOUS
  <1>5. h = [s \in SUBSET DOMAIN libs |-> Body(h, s)]
    BY <1>3, <1>4, Zenon
  <1>6. h[DOMAIN libs] \in Seq(OtherRoutes)
    BY <1>1, <1>5, RoutesTyped
  <1> QED BY <1>2, <1>4, <1>6

\* A sequence before the empty one, and before itself.
LEMMA NothingAfter == ASSUME NEW S, NEW s \in Seq(S) PROVE s \o <<>> = s
  OBVIOUS

LEMMA TwoOfThem ==
    ASSUME NEW S, NEW s \in Seq(S)
    PROVE  /\ DOMAIN (s \o s) = 1 .. Len(s) + Len(s)
           /\ \A i \in 1 .. Len(s) : (s \o s)[i] = s[i] /\ (s \o s)[Len(s) + i] = s[i]
  <1>1. Len(s) \in Nat /\ s \o s \in Seq(S) /\ Len(s \o s) = Len(s) + Len(s)
    OBVIOUS
  <1>2. DOMAIN (s \o s) = 1 .. Len(s) + Len(s)
    BY <1>1
  <1>3. ASSUME NEW i \in 1 .. Len(s) PROVE (s \o s)[i] = s[i]
    BY <1>3
  <1>4. ASSUME NEW i \in 1 .. Len(s) PROVE (s \o s)[Len(s) + i] = s[i]
    BY <1>1, <1>4
  <1> QED BY <1>2, <1>3, <1>4

LEMMA StartRoutes ==
    ASSUME IInv
    PROVE  OneStart \in Seq(Routes) /\ GraftletRoutes \o OwnRoutes \in Seq(OtherRoutes)
  <1>1. GraftletRoutes \o OwnRoutes \in Seq(OtherRoutes)
    BY GraftletRoutesType, EndpointRoutes, Concatenated
  <1>2. CallbackRoute \in Seq(Routes)
    <2>1. [path |-> "callback", methods |-> {"POST"}] \in Routes
      BY RoutesAssumption DEF Routes
    <2> QED BY <2>1 DEF CallbackRoute
  <1>3. GraftletRoutes \o OwnRoutes \in Seq(Routes)
    <2>1. OtherRoutes \subseteq Routes
      BY DEF OtherRoutes
    <2> HIDE DEF OtherRoutes
    <2> QED BY <1>1, <2>1
  <1> QED BY <1>1, <1>2, <1>3, Concatenated DEF OneStart

\* A start adds the same routes as the one before it, as the graftlets stay.
LEMMA SameStart == ASSUME UNCHANGED <<libs, server>> PROVE OneStart' = OneStart
  <1>1. GraftletRoutes' = GraftletRoutes
    BY DEF GraftletRoutes
  <1>2. OwnRoutes' = OwnRoutes
    BY DEF OwnRoutes
  <1>3. CallbackRoute' = CallbackRoute
    BY DEF CallbackRoute
  <1> QED BY <1>1, <1>2, <1>3 DEF OneStart

LEMMA RoutersRoutesOK ==
    ASSUME IInv, routes' = GraftletRoutes \o OwnRoutes \o CallbackRoute \o routes,
           phase = "routers", phase' = "bind", UNCHANGED <<libs, loader, server>>
    PROVE  RoutesOK'
  <1>1. OneStart \in Seq(Routes) /\ OneStart' = OneStart
    BY StartRoutes, SameStart
  <1>2. routes' = OneStart \o routes
    BY DEF OneStart
  <1>3. routes \in {<<>>, OneStart} /\ loader'
    BY DEF IInv, RoutesOK, PhaseOK
  <1>4. routes' \in {OneStart, OneStart \o OneStart}
    <2>1. OneStart \o <<>> = OneStart
      BY <1>1, NothingAfter
    <2> QED BY <1>2, <1>3, <2>1
  <1> QED BY <1>1, <1>3, <1>4 DEF RoutesOK

\* Where a start adds its routes to those of another, the two callback routes are in conflict:
\* no other route has their path.
LEMMA TwoStartsConflict == ASSUME IInv PROVE Conflict(OneStart \o OneStart)
  <1> DEFINE r == OneStart \o OneStart
             n == Len(OneStart)
             callback == [path |-> "callback", methods |-> {"POST"}]
             own == GraftletRoutes \o OwnRoutes
  <1>1. OneStart \in Seq(Routes) /\ own \in Seq(OtherRoutes) /\ OneStart = own \o CallbackRoute
    BY StartRoutes DEF OneStart
  <1> HIDE DEF own
  <1>2. n \in Nat /\ n = Len(own) + 1 /\ Len(own) \in Nat /\ OneStart[n] = callback
    BY <1>1 DEF CallbackRoute
  <1>3. /\ DOMAIN r = 1 .. n + n
        /\ \A i \in 1 .. n : r[i] = OneStart[i] /\ r[n + i] = OneStart[i]
    BY <1>1, TwoOfThem
  <1>4. ASSUME NEW j \in 1 .. (n + n - 1), r[j].path = "callback" PROVE r[j] = callback
    <2>1. \A i \in 1 .. n - 1 : OneStart[i].path # "callback"
      <3>1. ASSUME NEW i \in 1 .. n - 1 PROVE OneStart[i] \in OtherRoutes
        BY <1>1, <1>2, <3>1
      <3> QED BY <3>1 DEF OtherRoutes
    <2>2. j = n
      <3>1. CASE j <= n
        BY <1>2, <1>3, <1>4, <2>1, <3>1
      <3>2. CASE j > n
        <4>1. j - n \in 1 .. n - 1 /\ n + (j - n) = j
          BY <1>2, <3>2
        <4>2. r[j] = OneStart[j - n]
          BY <1>2, <1>3, <4>1
        <4> QED BY <1>4, <2>1, <4>1, <4>2
      <3> QED BY <1>2, <3>1, <3>2
    <2> QED BY <1>2, <1>3, <2>2
  <1>5. /\ n + n \in DOMAIN r /\ r[n + n] = callback /\ n \in 1 .. (n + n - 1)
        /\ r[n] = callback
    BY <1>2, <1>3
  <1>6. \A j \in {k \in 1 .. (n + n - 1) : r[k].path = r[n + n].path} : "POST" \in r[j].methods
    BY <1>4, <1>5
  <1>7. {k \in 1 .. (n + n - 1) : r[k].path = r[n + n].path} # {}
    BY <1>5
  <1> HIDE DEF r
  <1>8. Conflict(r)
    BY <1>5, <1>6, <1>7 DEF Conflict
  <1> QED BY <1>8 DEF r

\* The routes stay as they are.
LEMMA SameRoutes ==
    ASSUME IInv, UNCHANGED <<routes, libs, loader, server>>,
           \/ phase' = phase
           \/ phase # "bind" /\ phase' \in {"config", "looper", "misc", "routers"}
           \/ ~loader /\ phase # "bind" /\ phase' = "find"
           \/ phase = "run" /\ phase' = "serving"
           \/ phase = "bind" /\ phase' = "run" /\ ~Conflict(routes)
    PROVE  RoutesOK'
  <1>1. OneStart' = OneStart
    BY SameStart
  <1>2. CASE phase' = phase
    BY <1>1, <1>2 DEF IInv, RoutesOK
  <1>3. CASE phase # "bind" /\ phase' \in {"config", "looper", "misc", "routers"}
    BY <1>1, <1>3 DEF IInv, RoutesOK, PhaseOK
  <1>4. CASE ~loader /\ phase # "bind" /\ phase' = "find"
    BY <1>1, <1>4 DEF IInv, RoutesOK
  <1>5. CASE phase = "run" /\ phase' = "serving"
    BY <1>1, <1>5 DEF IInv, RoutesOK, PhaseOK
  <1>6. CASE phase = "bind" /\ phase' = "run" /\ ~Conflict(routes)
    <2>1. routes = OneStart
      BY <1>6, TwoStartsConflict DEF IInv, RoutesOK
    <2> QED BY <1>1, <1>6, <2>1 DEF IInv, RoutesOK, PhaseOK
  <1> QED BY <1>2, <1>3, <1>4, <1>5, <1>6

LEMMA CheckDependenciesIInv ==
    ASSUME IInv, CheckDependencies, UNCHANGED server
    PROVE  IInv'
  <1> USE DEF CheckDependencies, At, Goto, End
  <1>1. CASE At("remove") /\ RemoveFailed /\ UNCHANGED serverVars
    BY <1>1, RemoveIInv
  <1>2. CASE /\ At("remove") /\ Paint /\ Goto("cycles")
             /\ UNCHANGED <<loader, routes, baseStop, looper, handlers, res, signals>>
    BY <1>2, PaintIInv
  <1>3. CASE /\ At("cycles") /\ ~CycleFound
             /\ PickWhite \/ StepBack \/ \E child \in DOMAIN graph : Descend(child)
             /\ UNCHANGED serverVars
    BY <1>3, PickWhiteIInv, StepBackIInv, DescendIInv
  <1>4. CASE At("cycles") /\ CycleFound /\ End("cycle") /\ UNCHANGED graftletVars
    <2>1. Cyclic(LargestSupported)
      BY <1>4, CycleIsThere
    <2>2. /\ phase' = phase /\ routes' = routes /\ loader' = loader /\ phase = "cycles"
          /\ libs' = libs
      BY <1>4 DEF graftletVars
    <2>3. RoutesOK'
      BY <2>2, SameRoutes
    <2> QED BY <1>4, <2>1, <2>2, <2>3, ServerStep
  <1>5. CASE /\ At("cycles") /\ SearchDone /\ Goto("misc")
             /\ UNCHANGED <<graftletVars, loader, routes, baseStop, looper, handlers, res, signals>>
    <2>1. \A c \in SUBSET DOMAIN graph : ~Circle(c)
      BY <1>5, NoCycleLeft
    <2>2. /\ phase' = "misc" /\ routes' = routes /\ loader' = loader /\ phase = "cycles"
          /\ ended' = "no" /\ libs' = libs
      BY <1>5 DEF graftletVars
    <2>3. RoutesOK'
      BY <2>2, SameRoutes
    <2> QED BY <1>5, <2>1, <2>2, <2>3, ServerStep
  <1> QED BY <1>1, <1>2, <1>3, <1>4, <1>5

\* The main thread ends, or goes on to its next step with the routes it has.
LEMMA ThreadStep ==
    ASSUME IInv, UNCHANGED <<graftletVars, loader, routes, server>>,
           \/ phase' = phase /\ ended' # "cycle"
           \/ phase' = phase /\ ended' = ended
           \/ /\ ended' # "cycle"
              /\ \/ <<phase, phase'>> \in {<<"config", "looper">>, <<"misc", "routers">>,
                                           <<"run", "serving">>, <<"serving", "config">>}
                 \/ phase = "looper" /\ phase' = (IF loader THEN "misc" ELSE "find")
                 \/ phase = "bind" /\ phase' = "run" /\ ~Conflict(routes)
    PROVE  IInv'
  <1>1. libs' = libs
    BY DEF graftletVars
  <1>2. RoutesOK'
    BY <1>1, SameRoutes
  <1>3. ended' = "cycle" => Cyclic(LargestSupported)
    BY DEF IInv, EndedOK
  <1>4. phase' # phase =>
              \/ <<phase, phase'>> \in {<<"config", "looper">>, <<"misc", "routers">>,
                                        <<"routers", "bind">>, <<"bind", "run">>, <<"run", "serving">>,
                                        <<"serving", "config">>}
              \/ phase = "looper" /\ phase' = (IF loader THEN "misc" ELSE "find")
    OBVIOUS
  <1> QED BY <1>2, <1>3, <1>4, ServerStep

LEMMA StartIInv ==
    ASSUME IInv, Start, UNCHANGED server
    PROVE  IInv'
  <1> USE DEF At, Goto, End
  <1>1. CASE Configure
    BY <1>1, ThreadStep DEF Configure
  <1>2. CASE CreateLooper
    BY <1>2, ThreadStep DEF CreateLooper
  <1>3. CASE InitGraftlets
    <2>1. CASE At("find") /\ FindGraftlet /\ UNCHANGED serverVars
      BY <2>1, FindIInv
    <2>2. CASE At("find") /\ Throws /\ End("graftlet") /\ UNCHANGED graftletVars
      BY <2>2, ThreadStep
    <2>3. CASE /\ At("find") /\ InitializeGraph /\ Goto("remove") /\ loader' = TRUE
               /\ UNCHANGED <<routes, baseStop, looper, handlers, res, signals>>
      BY <2>3, InitializeIInv
    <2>4. CASE At("find") /\ InitializeThrows /\ End("graftlet") /\ UNCHANGED graftletVars
      BY <2>4, ThreadStep
    <2> QED BY <1>3, <2>1, <2>2, <2>3, <2>4 DEF InitGraftlets
  <1>4. CASE CheckDependencies
    BY <1>4, CheckDependenciesIInv
  <1>5. CASE SupernodeMisc
    BY <1>5, ThreadStep DEF SupernodeMisc
  <1>6. CASE WalletMisc
    BY <1>6, ThreadStep DEF WalletMisc
  <1>7. CASE InitRouters
    <2>1. CASE /\ routes' = GraftletRoutes \o OwnRoutes \o CallbackRoute \o routes
               /\ Goto("bind")
      <3>1. RoutesOK'
        BY <1>7, <2>1, RoutersRoutesOK DEF InitRouters, graftletVars
      <3>2. /\ phase = "routers" /\ phase' = "bind" /\ ended' = "no"
            /\ UNCHANGED <<graftletVars, loader>>
        BY <1>7, <2>1 DEF InitRouters
      <3> QED BY <3>1, <3>2, ServerStep
    <2>2. CASE End("graftlet")
      BY <1>7, <2>2, ThreadStep DEF InitRouters
    <2> QED BY <1>7, <2>1, <2>2 DEF InitRouters
  <1>8. CASE Bind
    <2>1. UNCHANGED <<graftletVars, loader, routes>> /\ phase = "bind" /\ ended' # "cycle"
      BY <1>8 DEF Bind, BindAddresses
    <2>2. phase' = phase \/ (phase' = "run" /\ ~Conflict(routes))
      BY <1>8 DEF Bind, BindAddresses
    <2> QED BY <2>1, <2>2, ThreadStep
  <1> QED BY <1>1, <1>2, <1>3, <1>4, <1>5, <1>6, <1>7, <1>8 DEF Start

LEMMA NextIInv == IInv /\ [Next]_vars => IInv'
  <1> SUFFICES ASSUME IInv, [Next]_vars PROVE IInv'
    OBVIOUS
  <1> USE DEF At, Goto, End
  <1>1. CASE Start /\ UNCHANGED server
    BY <1>1, StartIInv
  <1>2. CASE StartRun /\ UNCHANGED server
    BY <1>2, ThreadStep DEF StartRun
  <1>3. CASE Served /\ UNCHANGED server
    BY <1>3, ThreadStep DEF Served
  <1>4. ASSUME NEW s, Signal(s), UNCHANGED server PROVE IInv'
    <2>1. /\ phase' = phase /\ UNCHANGED <<graftletVars, loader, routes>>
          /\ ended' = "killed" \/ ended' = ended
      BY <1>4 DEF Signal
    <2> QED BY <1>4, <2>1, ThreadStep
  <1>5. CASE UNCHANGED vars
    <2>1. phase' = phase /\ ended' = ended /\ UNCHANGED <<graftletVars, loader, routes, server>>
      BY <1>5 DEF vars, graftletVars
    <2> QED BY <2>1, ThreadStep
  <1> QED BY <1>1, <1>2, <1>3, <1>4, <1>5 DEF Next, Run

THEOREM Invariance == Spec => []IInv
  BY InitIInv, NextIInv, PTL DEF Spec

-----------------------------------------------------------------------------

\* Whatever the directories hold, in whatever order, and whatever depends on what: past the
\* dependencies the libraries left are the largest supported set, without a cycle, and the start
\* ends for a cycle only if there is one (GraftletLoader::checkDependencies).
THEOREM LoadsTheLargestSet == Spec => []GraftletsExact
  <1>1. IInv => GraftletsExact
    <2> SUFFICES ASSUME IInv PROVE GraftletsExact
      OBVIOUS
    <2>1. ASSUME phase \in {"misc", "routers", "bind", "run", "serving"}
          PROVE  /\ DOMAIN libs = {files[i].name : i \in LargestSupported}
                 /\ ~Cyclic(LargestSupported)
      <3>1. loader /\ FailedNames = {} /\ FilesOK /\ LoadedOK /\ GraphOK
        BY <2>1 DEF IInv, PhaseOK
      <3>2. \A c \in SUBSET DOMAIN graph : ~Circle(c)
        BY <2>1, <3>1 DEF IInv, CyclesOK
      <3> QED BY <3>1, <3>2, ExactNames, CircleOfNames
    <2>2. ended = "cycle" => Cyclic(LargestSupported)
      BY DEF IInv, EndedOK
    <2> QED BY <2>1, <2>2 DEF GraftletsExact
  <1> QED BY <1>1, Invariance, PTL

\* Whatever the graftlets register and however often the server is restarted, it serves with the
\* routes of one start only (GraftServer::init, Router::dbgCheckConflictRoutes).
THEOREM ServesTheRoutesOfOneStart == Spec => []ServesOneStart
  <1>1. IInv => ServesOneStart
    BY DEF IInv, RoutesOK, ServesOneStart, OneStart
  <1> QED BY <1>1, Invariance, PTL

-----------------------------------------------------------------------------
(* BlackList: the windows of IpMap against the requests let in.              *)

\* What the window of an address says of n requests let in from time t on, which is recent.  It
\* began with the first of them; or it had begun before and moved on by at most k seconds since,
\* so that the requests of k seconds were forgiven; or it began anew after it, when the requests
\* before were within the limit.
BeganWith(t, n, w) == t = w.start /\ n <= w.count
MovedOn(t, n, w, k) ==
    /\ k * Second <= w.start + Wnd - t + Second
    /\ k = 0 \/ w.start + Wnd <= now
    /\ n <= w.count - 1 + RequestsPerSec * k
BeganAnew(t, n, w) == t <= w.start /\ n <= w.count + Limit - 1
Bounded(t, n, w) == BeganWith(t, n, w) \/ (\E k \in Nat : MovedOn(t, n, w, k)) \/ BeganAnew(t, n, w)

\* A time that counts.
IsRecent(t) == t \in Nat /\ t <= now /\ now - t < Wnd

IsWindow(w) == /\ w.start \in Nat /\ w.count \in Nat
               /\ w.start <= now /\ 1 <= w.count /\ w.count <= Limit

\* The requests a history has from the i-th on.
Since(h, i) == Len(h) - i + 1

\* A history h of an address with window w, and of one without a window.
Counts(h, w) == \A i \in DOMAIN h : IsRecent(h[i]) => Bounded(h[i], Since(h, i), w)
Few(h) == \A i \in DOMAIN h : IsRecent(h[i]) => Since(h, i) < Limit

HitsOK ==
    /\ now \in Nat
    /\ hits \in [Clients -> Seq(Nat)]
    /\ \A a \in Clients : \A i \in DOMAIN hits[a] : hits[a][i] <= now

WindowsOK ==
    /\ DOMAIN ipwnd \subseteq Clients
    /\ \A a \in DOMAIN ipwnd : IsWindow(ipwnd[a]) /\ Counts(hits[a], ipwnd[a])
    /\ \A a \in Clients \ DOMAIN ipwnd : Few(hits[a])

\* The inductive invariant for RateBound.
RateInv == HitsOK /\ WindowsOK

\* Seconds and ticks.
LEMMA Ticks ==
    /\ Second \in Nat /\ 1 <= Second /\ WindowSec \in Nat /\ RequestsPerSec \in Nat
    /\ Wnd \in Nat /\ Second <= Wnd /\ Limit \in Nat
    /\ Wnd = WindowSec * Second /\ Limit = RequestsPerSec * WindowSec
    /\ RequestsPerSec # 0 => 1 <= Limit
  <1>1. /\ Second \in Nat /\ Second # 0 /\ WindowSec \in Nat /\ WindowSec # 0
        /\ RequestsPerSec \in Nat
    BY BlackListAssumption
  <1>2. \A x, y \in Nat : x * y \in Nat /\ (x # 0 => y <= x * y) /\ x * y = y * x
    OBVIOUS
  <1>3. \A x, y \in Nat : x # 0 /\ y # 0 => 1 <= x * y
    OBVIOUS
  <1> QED BY <1>1, <1>2, <1>3 DEF Wnd, Limit

\* k seconds are fewer than the window and one more.
LEMMA WholeSeconds ==
    ASSUME NEW k \in Nat, k * Second < Wnd + Second
    PROVE  k <= WindowSec /\ RequestsPerSec * k <= Limit
  <1>1. Second \in Nat /\ 1 <= Second /\ WindowSec \in Nat /\ RequestsPerSec \in Nat
    BY Ticks
  <1>2. k <= WindowSec
    <2> SUFFICES ASSUME WindowSec + 1 <= k PROVE FALSE
      BY <1>1
    <2>1. \A x, y, z \in Nat : x <= y => x * z <= y * z
      OBVIOUS
    <2>2. (WindowSec + 1) * Second <= k * Second
      BY <1>1, <2>1
    <2>3. (WindowSec + 1) * Second = Wnd + Second
      BY <1>1, Ticks
    <2>4. k * Second \in Nat /\ Wnd \in Nat
      BY <1>1, Ticks
    <2> QED BY <1>1, <2>2, <2>3, <2>4
  <1>3. \A x, y, z \in Nat : x <= y => z * x <= z * y
    OBVIOUS
  <1> QED BY <1>1, <1>2, <1>3, Ticks

\* duration_cast to seconds.
LEMMA Duration ==
    ASSUME NEW x \in Nat, Second <= x
    PROVE  /\ x \div Second \in Nat /\ 1 <= x \div Second
           /\ (x \div Second) * Second <= x
           /\ x < (x \div Second) * Second + Second
  <1>1. Second \in Nat /\ 1 <= Second
    BY Ticks
  <1>2. \A s \in Nat \ {0} : \A y \in Nat : /\ y \div s \in Nat
                                            /\ (y \div s) * s <= y
                                            /\ y < (y \div s) * s + s
    OBVIOUS
  <1>3. /\ x \div Second \in Nat /\ (x \div Second) * Second <= x
        /\ x < (x \div Second) * Second + Second
    BY <1>1, <1>2
  <1>4. x \div Second # 0
    <2> SUFFICES ASSUME x \div Second = 0 PROVE FALSE
      OBVIOUS
    <2>1. (x \div Second) * Second = 0
      BY <1>1
    <2> QED BY <1>1, <1>3, <2>1
  <1> QED BY <1>3, <1>4

\* The window after one more request: new, the same, or moved on by whole seconds.
LEMMA CountedIs ==
    ASSUME now \in Nat, NEW w, IsWindow(w)
    PROVE  \/ /\ Counted(w) = NewWindow
              /\ w.start + 2 * Wnd < now
           \/ /\ Counted(w).start = w.start /\ Counted(w).count = w.count + 1
              /\ now <= w.start + Wnd + Second
           \/ \E s \in Nat :
                 /\ s * Second <= now - (w.start + Wnd) /\ now < w.start + Wnd + s * Second + Second
                 /\ \/ Counted(w) = NewWindow /\ w.count <= RequestsPerSec * s
                    \/ /\ Counted(w) = [start |-> w.start + s * Second,
                                        count |-> (w.count - RequestsPerSec * s) + 1]
                       /\ RequestsPerSec * s < w.count
  <1> DEFINE x == now - (w.start + Wnd)
             s == x \div Second
  <1>1. /\ Wnd \in Nat /\ Second \in Nat /\ 1 <= Second /\ RequestsPerSec \in Nat
        /\ w.start \in Nat /\ w.count \in Nat
    BY Ticks DEF IsWindow
  <1>2. CASE w.start + Wnd + Wnd < now
    BY <1>1, <1>2 DEF Counted
  <1>3. CASE ~(w.start + Wnd + Wnd < now) /\ ~(w.start + Wnd + Second < now)
    <2>1. Counted(w) = [w EXCEPT !.count = @ + 1]
      BY <1>3 DEF Counted
    <2> QED BY <1>1, <1>3, <2>1
  <1>4. CASE ~(w.start + Wnd + Wnd < now) /\ w.start + Wnd + Second < now
    <2>1. x \in Nat /\ Second <= x
      BY <1>1, <1>4
    <2>2. s \in Nat /\ s * Second <= x /\ x < s * Second + Second
      BY <2>1, Duration
    <2>3. Counted(w) = IF w.count - s * RequestsPerSec <= 0 THEN NewWindow
                       ELSE [start |-> w.start + s * Second,
                             count |-> (w.count - s * RequestsPerSec) + 1]
      BY <1>4 DEF Counted
    <2> HIDE DEF s
    <2>4. s * RequestsPerSec = RequestsPerSec * s /\ s * RequestsPerSec \in Nat /\ s * Second \in Nat
      BY <1>1, <2>2
    <2>5. now < w.start + Wnd + s * Second + Second
      BY <1>1, <2>2, <2>4
    <2>6. \/ Counted(w) = NewWindow /\ w.count <= RequestsPerSec * s
          \/ /\ Counted(w) = [start |-> w.start + s * Second,
                              count |-> (w.count - RequestsPerSec * s) + 1]
             /\ RequestsPerSec * s < w.count
      BY <1>1, <2>3, <2>4
    <2> QED BY <2>2, <2>5, <2>6
  <1> QED BY <1>2, <1>3, <1>4

\* It counts the request itself.
LEMMA CountsItself ==
    ASSUME now \in Nat, NEW w, IsWindow(w)
    PROVE  /\ Bounded(now, 1, Counted(w))
           /\ Counted(w).start \in Nat /\ Counted(w).start <= now
           /\ Counted(w).count \in Nat /\ 1 <= Counted(w).count
  <1>1. /\ Wnd \in Nat /\ Second \in Nat /\ 1 <= Second /\ RequestsPerSec \in Nat
        /\ w.start \in Nat /\ w.count \in Nat /\ w.start <= now /\ 1 <= w.count
    BY Ticks DEF IsWindow
  <1>2. /\ 0 * Second = 0 /\ RequestsPerSec * 0 = 0 /\ 0 \in Nat
    BY <1>1
  <1>3. CASE Counted(w) = NewWindow
    BY <1>3 DEF NewWindow, Bounded, BeganWith
  <1>4. CASE /\ Counted(w).start = w.start /\ Counted(w).count = w.count + 1
             /\ now <= w.start + Wnd + Second
    <2>1. MovedOn(now, 1, Counted(w), 0)
      BY <1>1, <1>2, <1>4 DEF MovedOn
    <2> QED BY <1>1, <1>2, <1>4, <2>1 DEF Bounded
  <1>5. ASSUME NEW s \in Nat,
               s * Second <= now - (w.start + Wnd), now < w.start + Wnd + s * Second + Second,
               Counted(w) = [start |-> w.start + s * Second,
                             count |-> (w.count - RequestsPerSec * s) + 1],
               RequestsPerSec * s < w.count
        PROVE  /\ Bounded(now, 1, Counted(w))
               /\ Counted(w).start \in Nat /\ Counted(w).start <= now
               /\ Counted(w).count \in Nat /\ 1 <= Counted(w).count
    <2>1. s * Second \in Nat /\ RequestsPerSec * s \in Nat
      BY <1>1
    <2>2. /\ Counted(w).start = w.start + s * Second
          /\ Counted(w).count = (w.count - RequestsPerSec * s) + 1
      BY <1>5
    <2>3. /\ Counted(w).start \in Nat /\ Counted(w).start <= now
          /\ Counted(w).count \in Nat /\ 2 <= Counted(w).count
          /\ 0 <= Counted(w).start + Wnd - now + Second
      BY <1>1, <1>5, <2>1, <2>2
    <2>4. MovedOn(now, 1, Counted(w), 0)
      BY <1>1, <1>2, <2>3 DEF MovedOn
    <2> QED BY <1>2, <2>3, <2>4 DEF Bounded
  <1> QED BY <1>1, <1>3, <1>4, <1>5, CountedIs DEF NewWindow

\* It counts one more of the requests from a recent one on.
LEMMA CountsOneMore ==
    ASSUME RequestsPerSec # 0, now \in Nat, NEW w, IsWindow(w), NEW t, IsRecent(t), NEW n \in Nat,
           Bounded(t, n, w)
    PROVE  Bounded(t, n + 1, Counted(w))
  <1> DEFINE v == Counted(w)
  <1>1. /\ Wnd \in Nat /\ Second \in Nat /\ 1 <= Second /\ RequestsPerSec \in Nat /\ Limit \in Nat
        /\ w.start \in Nat /\ w.count \in Nat /\ w.start <= now /\ 1 <= w.count /\ w.count <= Limit
        /\ t \in Nat /\ t <= now /\ now - t < Wnd
    BY Ticks DEF IsWindow, IsRecent
  <1>2. CASE t <= w.start /\ (n <= w.count \/ n <= w.count + Limit - 1)
    <2>1. v.start = w.start /\ v.count = w.count + 1
      <3>1. ~(w.start + 2 * Wnd < now)
        BY <1>1, <1>2
      <3>2. ASSUME NEW s \in Nat, s * Second <= now - (w.start + Wnd) PROVE FALSE
        <4>1. s * Second \in Nat
          BY <1>1
        <4> QED BY <1>1, <1>2, <3>2, <4>1
      <3> HIDE DEF v
      <3> QED BY <3>1, <3>2, CountedIs DEF v
    <2>2. BeganAnew(t, n + 1, v)
      BY <1>1, <1>2, <2>1, Ticks DEF BeganAnew
    <2> QED BY <2>2 DEF Bounded
  <1>3. ASSUME NEW k \in Nat, MovedOn(t, n, w, k) PROVE Bounded(t, n + 1, v)
    <2>1. /\ k * Second \in Nat /\ RequestsPerSec * k \in Nat
          /\ k * Second <= w.start + Wnd - t + Second
          /\ k = 0 \/ w.start + Wnd <= now
          /\ n <= w.count - 1 + RequestsPerSec * k
      BY <1>1, <1>3 DEF MovedOn
    <2>2. CASE v = NewWindow /\ w.start + 2 * Wnd < now
      <3>1. k * Second < Second
        BY <1>1, <2>1, <2>2
      <3>2. k = 0
        BY <1>1, <3>1
      <3>3. RequestsPerSec * k = 0
        BY <1>1, <3>2
      <3>4. BeganAnew(t, n + 1, NewWindow)
        BY <1>1, <2>1, <3>3 DEF BeganAnew, NewWindow
      <3> QED BY <2>2, <3>4 DEF Bounded
    <2>3. CASE v.start = w.start /\ v.count = w.count + 1
      <3>1. MovedOn(t, n + 1, v, k)
        BY <1>1, <2>1, <2>3 DEF MovedOn
      <3> QED BY <3>1 DEF Bounded
    <2>4. ASSUME NEW s \in Nat, s * Second <= now - (w.start + Wnd)
          PROVE  /\ s * Second \in Nat /\ RequestsPerSec * s \in Nat
                 /\ (k + s) * Second = k * Second + s * Second
                 /\ RequestsPerSec * (k + s) = RequestsPerSec * k + RequestsPerSec * s
                 /\ k + s \in Nat
      BY <1>1
    <2>5. ASSUME NEW s \in Nat, s * Second <= now - (w.start + Wnd),
                 v = NewWindow, w.count <= RequestsPerSec * s
          PROVE  Bounded(t, n + 1, v)
      <3>1. (k + s) * Second < Wnd + Second
        BY <1>1, <2>1, <2>4, <2>5
      <3>2. RequestsPerSec * (k + s) <= Limit
        BY <2>4, <2>5, <3>1, WholeSeconds
      <3>3. BeganAnew(t, n + 1, NewWindow)
        BY <1>1, <2>1, <2>4, <2>5, <3>2 DEF BeganAnew, NewWindow
      <3> QED BY <2>5, <3>3 DEF Bounded
    <2>6. ASSUME NEW s \in Nat, s * Second <= now - (w.start + Wnd),
                 v.start = w.start + s * Second, v.count = (w.count - RequestsPerSec * s) + 1
          PROVE  Bounded(t, n + 1, v)
      <3>1. MovedOn(t, n + 1, v, k + s)
        BY <1>1, <2>1, <2>4, <2>6 DEF MovedOn
      <3> QED BY <2>4, <2>6, <3>1 DEF Bounded
    <2> HIDE DEF v
    <2> QED BY <2>2, <2>3, <2>5, <2>6, CountedIs DEF v
  <1>4. BeganWith(t, n, w) \/ BeganAnew(t, n, w) =>
            t <= w.start /\ (n <= w.count \/ n <= w.count + Limit - 1)
    BY <1>1 DEF BeganWith, BeganAnew
  <1> QED BY <1>2, <1>3, <1>4 DEF Bounded

\* When a window is old enough to be removed, the requests from a recent one on are few.
LEMMA OldCountsFew ==
    ASSUME now \in Nat, NEW w, IsWindow(w), NEW t, IsRecent(t), NEW n \in Nat, Bounded(t, n, w),
           w.start + 2 * Wnd <= now
    PROVE  n < Limit
  <1>1. /\ Wnd \in Nat /\ Second \in Nat /\ 1 <= Second /\ RequestsPerSec \in Nat /\ Limit \in Nat
        /\ w.start \in Nat /\ w.count \in Nat /\ w.count <= Limit
        /\ t \in Nat /\ t <= now /\ now - t < Wnd
    BY Ticks DEF IsWindow, IsRecent
  <1>2. ~BeganWith(t, n, w) /\ ~BeganAnew(t, n, w)
    BY <1>1 DEF BeganWith, BeganAnew
  <1>3. PICK k \in Nat : MovedOn(t, n, w, k)
    BY <1>2 DEF Bounded
  <1>4. k * Second <= w.start + Wnd - t + Second /\ n <= w.count - 1 + RequestsPerSec * k
    BY <1>3 DEF MovedOn
  <1>5. k * Second \in Nat /\ k * Second < Second
    BY <1>1, <1>4
  <1>6. k = 0
    BY <1>1, <1>5
  <1>7. RequestsPerSec * k = 0
    BY <1>1, <1>6
  <1> QED BY <1>1, <1>4, <1>7

\* No window lets twice the limit in.
LEMMA BelowTwice ==
    ASSUME RequestsPerSec # 0, now \in Nat, NEW w, IsWindow(w), NEW t, IsRecent(t), NEW n \in Nat,
           Bounded(t, n, w)
    PROVE  n < 2 * Limit
  <1>1. /\ Wnd \in Nat /\ Second \in Nat /\ 1 <= Second /\ RequestsPerSec \in Nat /\ Limit \in Nat
        /\ w.start \in Nat /\ w.count \in Nat /\ w.count <= Limit /\ 1 <= Limit
        /\ t \in Nat /\ t <= now /\ now - t < Wnd
    BY Ticks DEF IsWindow, IsRecent
  <1>2. CASE BeganWith(t, n, w) \/ BeganAnew(t, n, w)
    BY <1>1, <1>2 DEF BeganWith, BeganAnew
  <1>3. ASSUME NEW k \in Nat, MovedOn(t, n, w, k) PROVE n < 2 * Limit
    <2>1. /\ k * Second <= w.start + Wnd - t + Second /\ n <= w.count - 1 + RequestsPerSec * k
          /\ k = 0 \/ w.start + Wnd <= now
          /\ k * Second \in Nat /\ RequestsPerSec * k \in Nat
      BY <1>1, <1>3 DEF MovedOn
    <2>2. k * Second < Wnd + Second
      BY <1>1, <2>1
    <2>3. RequestsPerSec * k <= Limit
      BY <2>2, WholeSeconds
    <2> QED BY <1>1, <2>1, <2>3
  <1> QED BY <1>2, <1>3 DEF Bounded

\* The recent part of a history ends with it.
LEMMA RecentPart ==
    ASSUME now \in Nat, NEW h \in Seq(Nat), \A i \in DOMAIN h : h[i] <= now
    PROVE  /\ Recent(h) \in Seq(Nat)
           /\ \A i \in DOMAIN Recent(h) :
                 \E j \in DOMAIN h : /\ Recent(h)[i] = h[j]
                                           /\ Since(Recent(h), i) = Since(h, j)
           /\ \/ Len(Recent(h)) = 0
              \/ \E j \in DOMAIN h : IsRecent(h[j]) /\ Len(Recent(h)) = Since(h, j)
  <1> DEFINE r == Recent(h)
             recent == {i \in DOMAIN h : now - h[i] < Wnd}
             f == Least(recent)
  <1>1. /\ h \in Seq(Nat) /\ Len(h) \in Nat /\ DOMAIN h = 1 .. Len(h)
        /\ \A i \in DOMAIN h : h[i] \in Nat /\ h[i] <= now
    OBVIOUS
  <1>2. CASE recent = {}
    <2>1. r = <<>>
      BY <1>2 DEF Recent
    <2>2. r \in Seq(Nat) /\ Len(r) = 0 /\ DOMAIN r = {}
      BY <2>1
    <2> HIDE DEF r
    <2> QED BY <2>2 DEF r
  <1>3. CASE recent # {}
    <2>1. recent \subseteq Nat
      BY <1>1
    <2>2. f \in recent
      BY <1>3, <2>1, LeastIs
    <2>3. r = SubSeq(h, f, Len(h))
      BY <1>3 DEF Recent
    <2>4. f \in 1 .. Len(h) /\ f \in Nat
      BY <1>1, <2>2
    <2> HIDE DEF f
    <2>5. /\ r \in Seq(Nat) /\ Len(r) = Len(h) - f + 1 /\ DOMAIN r = 1 .. Len(r)
          /\ \A i \in 1 .. Len(r) : r[i] = h[f + i - 1]
      <3> HIDE DEF r
      <3>1. r \in Seq(Nat) /\ Len(r) = Len(h) - f + 1
        BY <1>1, <2>3, <2>4
      <3>2. DOMAIN r = 1 .. Len(r)
        BY <3>1
      <3>3. \A i \in 1 .. Len(r) : r[i] = h[f + i - 1]
        BY <1>1, <2>3, <2>4, <3>1
      <3> QED BY <3>1, <3>2, <3>3
    <2>6. ASSUME NEW i \in DOMAIN r
          PROVE  \E j \in DOMAIN h : r[i] = h[j] /\ Since(r, i) = Since(h, j)
      <3> HIDE DEF r, recent
      <3>c. Len(r) \in Nat /\ i \in 1 .. Len(r)
        BY <1>1, <2>4, <2>5, <2>6
      <3>0. PICK j \in Nat : j = f + i - 1
        BY <2>4, <2>5, <2>6
      <3>d. \A l \in 1 .. Len(r) : r[l] = h[f + l - 1]
        BY <2>5
      <3>e. r[i] = h[f + i - 1]
        BY <3>c, <3>d, Zenon
      <3>a. i \in Nat /\ 1 <= i /\ i <= Len(h) - f + 1
        <4>1. Len(r) = Len(h) - f + 1
          BY <2>5
        <4> QED BY <3>c, <4>1
      <3>b. j <= Len(h) /\ 1 <= j
        BY <1>1, <2>4, <3>0, <3>a
      <3>1. j \in DOMAIN h /\ r[i] = h[j]
        BY <1>1, <3>0, <3>b, <3>e
      <3>2. Since(r, i) = Since(h, j)
        BY <1>1, <2>4, <2>5, <3>0, <3>a DEF Since
      <3> QED BY <3>1, <3>2
    <2>7. IsRecent(h[f]) /\ f \in DOMAIN h
      BY <1>1, <2>2 DEF IsRecent
    <2>8. Len(r) = Since(h, f)
      BY <2>5 DEF Since
    <2> HIDE DEF r
    <2> QED BY <2>5, <2>6, <2>7, <2>8 DEF r
  <1> QED BY <1>2, <1>3

LEMMA RecentHits ==
    ASSUME HitsOK, NEW a \in Clients
    PROVE  /\ Recent(hits[a]) \in Seq(Nat)
           /\ \A i \in DOMAIN Recent(hits[a]) :
                 \E j \in DOMAIN hits[a] : /\ Recent(hits[a])[i] = hits[a][j]
                                           /\ Since(Recent(hits[a]), i) = Since(hits[a], j)
           /\ \/ Len(Recent(hits[a])) = 0
              \/ \E j \in DOMAIN hits[a] :
                    IsRecent(hits[a][j]) /\ Len(Recent(hits[a])) = Since(hits[a], j)
  <1>1. now \in Nat /\ hits[a] \in Seq(Nat) /\ \A i \in DOMAIN hits[a] : hits[a][i] <= now
    BY DEF HitsOK
  <1> QED BY <1>1, RecentPart

\* A part keeps what holds of the whole.
LEMMA PartCounts ==
    ASSUME HitsOK, NEW a \in Clients
    PROVE  /\ \A i \in DOMAIN Recent(hits[a]) : Recent(hits[a])[i] <= now
           /\ \A w : Counts(hits[a], w) => Counts(Recent(hits[a]), w)
           /\ Few(hits[a]) => Few(Recent(hits[a]))
  <1>1. \A i \in DOMAIN Recent(hits[a]) :
           \E j \in DOMAIN hits[a] : /\ Recent(hits[a])[i] = hits[a][j]
                                     /\ Since(Recent(hits[a]), i) = Since(hits[a], j)
    BY RecentHits
  <1>2. \A j \in DOMAIN hits[a] : hits[a][j] <= now
    BY DEF HitsOK
  <1>3. ASSUME NEW w, Counts(hits[a], w) PROVE Counts(Recent(hits[a]), w)
    BY <1>1, <1>3 DEF Counts
  <1>4. Few(hits[a]) => Few(Recent(hits[a]))
    BY <1>1 DEF Few
  <1> QED BY <1>1, <1>2, <1>3, <1>4

\* One more request in a history.
LEMMA OneMoreHit ==
    ASSUME now \in Nat, NEW r \in Seq(Nat)
    PROVE  /\ Append(r, now) \in Seq(Nat)
           /\ \A i \in DOMAIN Append(r, now) :
                 \/ Append(r, now)[i] = now /\ Since(Append(r, now), i) = 1
                 \/ /\ i \in DOMAIN r /\ Append(r, now)[i] = r[i] /\ Since(r, i) \in Nat
                    /\ Since(Append(r, now), i) = Since(r, i) + 1
  <1> DEFINE g == Append(r, now)
  <1>1. /\ Len(r) \in Nat /\ DOMAIN r = 1 .. Len(r) /\ g \in Seq(Nat)
        /\ Len(g) = Len(r) + 1 /\ DOMAIN g = 1 .. Len(r) + 1
        /\ g[Len(r) + 1] = now /\ \A i \in 1 .. Len(r) : g[i] = r[i]
    OBVIOUS
  <1>2. ASSUME NEW i \in DOMAIN g
        PROVE  \/ g[i] = now /\ Since(g, i) = 1
               \/ i \in DOMAIN r /\ g[i] = r[i] /\ Since(r, i) \in Nat /\ Since(g, i) = Since(r, i) + 1
    <2> HIDE DEF g
    <2>1. i \in Nat /\ (i = Len(r) + 1 \/ i \in 1 .. Len(r))
      BY <1>1, <1>2
    <2>2. CASE i = Len(r) + 1
      <3>1. g[i] = now
        BY <1>1, <2>2
      <3>2. Len(g) - i + 1 = 1
        BY <1>1, <2>2
      <3> QED BY <3>1, <3>2 DEF Since
    <2>3. CASE i \in 1 .. Len(r)
      <3>1. i \in DOMAIN r /\ g[i] = r[i]
        BY <1>1, <2>3
      <3>a. Len(r) \in Nat /\ Len(g) = Len(r) + 1
        BY <1>1
      <3>2. Len(r) - i + 1 \in Nat /\ Len(g) - i + 1 = (Len(r) - i + 1) + 1
        BY <2>1, <2>3, <3>a
      <3> QED BY <3>1, <3>2 DEF Since
    <2> QED BY <2>1, <2>2, <2>3
  <1> QED BY <1>1, <1>2

\* The window that IpMap::inc makes of the one there is, or of none, counts the request.
LEMMA IncCounts ==
    ASSUME RequestsPerSec # 0, HitsOK, NEW r \in Seq(Nat),
           NEW w, IsWindow(w), Counts(r, w), Counted(w).count <= Limit
    PROVE  IsWindow(Counted(w)) /\ Counts(Append(r, now), Counted(w))
  <1> DEFINE g == Append(r, now)
             v == Counted(w)
  <1>0. now \in Nat
    BY DEF HitsOK
  <1>1. /\ Bounded(now, 1, v) /\ v.start \in Nat /\ v.start <= now /\ v.count \in Nat /\ 1 <= v.count
    BY <1>0, CountsItself
  <1>2. ASSUME NEW i \in DOMAIN g, IsRecent(g[i]) PROVE Bounded(g[i], Since(g, i), v)
    <2>1. \/ g[i] = now /\ Since(g, i) = 1
          \/ i \in DOMAIN r /\ g[i] = r[i] /\ Since(r, i) \in Nat /\ Since(g, i) = Since(r, i) + 1
      BY <1>0, <1>2, OneMoreHit
    <2> HIDE DEF g, v
    <2>2. CASE g[i] = now /\ Since(g, i) = 1
      BY <1>1, <2>2
    <2>3. CASE i \in DOMAIN r /\ g[i] = r[i] /\ Since(r, i) \in Nat /\ Since(g, i) = Since(r, i) + 1
      <3>1. Bounded(r[i], Since(r, i), w) /\ IsRecent(r[i])
        BY <1>2, <2>3 DEF Counts
      <3>2. Bounded(r[i], Since(r, i) + 1, v)
        BY <1>0, <2>3, <3>1, CountsOneMore DEF v
      <3> QED BY <2>3, <3>2
    <2> QED BY <2>1, <2>2, <2>3
  <1>3. IsWindow(v)
    BY <1>1 DEF IsWindow
  <1> HIDE DEF v, g
  <1> QED BY <1>2, <1>3 DEF Counts, v, g

LEMMA NewCounts ==
    ASSUME RequestsPerSec # 0, HitsOK, NEW r \in Seq(Nat), Few(r)
    PROVE  IsWindow(NewWindow) /\ Counts(Append(r, now), NewWindow)
  <1> DEFINE g == Append(r, now)
  <1>0. now \in Nat /\ Limit \in Nat /\ 1 <= Limit
    BY Ticks DEF HitsOK
  <1>1. IsWindow(NewWindow)
    BY <1>0 DEF IsWindow, NewWindow
  <1>2. ASSUME NEW i \in DOMAIN g, IsRecent(g[i]) PROVE Bounded(g[i], Since(g, i), NewWindow)
    <2>1. \/ g[i] = now /\ Since(g, i) = 1
          \/ i \in DOMAIN r /\ g[i] = r[i] /\ Since(r, i) \in Nat /\ Since(g, i) = Since(r, i) + 1
      BY <1>0, <1>2, OneMoreHit
    <2> HIDE DEF g
    <2>2. CASE g[i] = now /\ Since(g, i) = 1
      BY <2>2 DEF Bounded, BeganWith, NewWindow
    <2>3. CASE i \in DOMAIN r /\ g[i] = r[i] /\ Since(r, i) \in Nat /\ Since(g, i) = Since(r, i) + 1
      <3>1. Since(r, i) < Limit /\ r[i] <= now
        BY <1>2, <2>3 DEF Few, IsRecent
      <3>2. BeganAnew(g[i], Since(g, i), NewWindow)
        BY <1>0, <2>3, <3>1 DEF BeganAnew, NewWindow
      <3> QED BY <3>2 DEF Bounded
    <2> QED BY <2>1, <2>2, <2>3
  <1> HIDE DEF g
  <1> QED BY <1>1, <1>2 DEF Counts, g

\* Besides the window that triggered, only an old one goes.
LEMMA OnlyOldGoes ==
    ASSUME NEW w, NEW addr, NEW triggered \in BOOLEAN,
           NEW kept, kept = (IF triggered THEN Without(w, addr) ELSE w),
           NEW left, left = removeItAndNeighbor(w, addr, triggered)
    PROVE  /\ DOMAIN left \subseteq DOMAIN kept
           /\ \A a \in DOMAIN left : left[a] = kept[a]
           /\ \A a \in DOMAIN kept \ DOMAIN left : kept[a].start + 2 * Wnd <= now
  <1> DEFINE it == Neighbor(addr, DOMAIN kept)
  <1>1. left = IF DOMAIN kept = {} THEN kept
               ELSE IF kept[it].start + 2 * Wnd <= now THEN Without(kept, it) ELSE kept
    BY DEF removeItAndNeighbor
  <1> HIDE DEF it
  <1>2. CASE left = kept
    BY <1>2
  <1>3. CASE left = Without(kept, it) /\ kept[it].start + 2 * Wnd <= now
    BY <1>3 DEF Without
  <1> QED BY <1>1, <1>2, <1>3

\* A window that is removed leaves few requests behind.
LEMMA OldLeavesFew ==
    ASSUME HitsOK, NEW h \in Seq(Nat), NEW w, IsWindow(w), Counts(h, w), w.start + 2 * Wnd <= now
    PROVE  Few(h)
  <1> SUFFICES ASSUME NEW i \in DOMAIN h, IsRecent(h[i]) PROVE Since(h, i) < Limit
    BY DEF Few
  <1>1. Since(h, i) \in Nat
    BY DEF Since
  <1>2. Bounded(h[i], Since(h, i), w)
    BY DEF Counts
  <1> QED BY <1>1, <1>2, OldCountsFew DEF HitsOK

\* The windows and histories after a request, the windows that are too old included.
LEMMA AfterInc ==
    ASSUME RequestsPerSec # 0, HitsOK, now' = now, hits' \in [Clients -> Seq(Nat)],
           \A a \in Clients : \A i \in DOMAIN hits'[a] : hits'[a][i] <= now,
           NEW kept, DOMAIN kept \subseteq Clients,
           \A a \in DOMAIN kept : IsWindow(kept[a]) /\ Counts(hits'[a], kept[a]),
           \A a \in Clients \ DOMAIN kept : Few(hits'[a]),
           DOMAIN ipwnd' \subseteq DOMAIN kept,
           \A a \in DOMAIN ipwnd' : ipwnd'[a] = kept[a],
           \A a \in DOMAIN kept \ DOMAIN ipwnd' : kept[a].start + 2 * Wnd <= now
    PROVE  RateInv'
  <1>1. HitsOK'
    BY DEF HitsOK
  <1>2. \A a \in DOMAIN ipwnd' : IsWindow(ipwnd'[a]) /\ Counts(hits'[a], ipwnd'[a])
    OBVIOUS
  <1>3. ASSUME NEW a \in Clients \ DOMAIN ipwnd' PROVE Few(hits'[a])
    <2>1. CASE a \notin DOMAIN kept
      BY <1>3, <2>1
    <2>2. CASE a \in DOMAIN kept
      <3>1. /\ IsWindow(kept[a]) /\ Counts(hits'[a], kept[a]) /\ hits'[a] \in Seq(Nat)
            /\ kept[a].start + 2 * Wnd <= now
        BY <1>3, <2>2
      <3> QED BY <3>1, OldLeavesFew
    <2> QED BY <2>1, <2>2
  <1>5. WindowsOK'
    <2>1. DOMAIN ipwnd' \subseteq Clients
      OBVIOUS
    <2>2. \A a \in DOMAIN ipwnd' : (IsWindow(ipwnd[a]) /\ Counts(hits[a], ipwnd[a]))'
      BY <1>2 DEF IsWindow, Counts, IsRecent, Bounded, BeganWith, MovedOn, BeganAnew
    <2>3. \A a \in Clients \ DOMAIN ipwnd' : Few(hits[a])'
      BY <1>3 DEF Few, IsRecent
    <2> QED BY <2>1, <2>2, <2>3 DEF WindowsOK
  <1> QED BY <1>1, <1>5 DEF RateInv

LEMMA CountRateInv ==
    ASSUME RequestsPerSec # 0, RateInv, NEW addr \in Clients, NEW u, Count(addr, u, Inc(addr)),
           now' = now
    PROVE  RateInv'
  <1> DEFINE w == IF addr \in DOMAIN ipwnd THEN Counted(ipwnd[addr]) ELSE NewWindow
             triggered == addr \in DOMAIN ipwnd /\ Limit < w.count
             all == With(ipwnd, addr, w)
             kept == IF triggered THEN Without(all, addr) ELSE all
  <1>1. HitsOK /\ WindowsOK
    BY DEF RateInv
  <1>2. Inc(addr) = [triggered |-> triggered, ipwnd |-> removeItAndNeighbor(all, addr, triggered)]
    BY DEF Inc
  <1>3. triggered \in BOOLEAN /\ ipwnd' = removeItAndNeighbor(all, addr, triggered)
    BY <1>2 DEF Count
  <1>4. /\ DOMAIN ipwnd' \subseteq DOMAIN kept
        /\ \A a \in DOMAIN ipwnd' : ipwnd'[a] = kept[a]
        /\ \A a \in DOMAIN kept \ DOMAIN ipwnd' : kept[a].start + 2 * Wnd <= now
    <2> HIDE DEF triggered, all
    <2> QED BY <1>3, OnlyOldGoes
  <1>5. /\ DOMAIN all = DOMAIN ipwnd \cup {addr} /\ all[addr] = w
        /\ \A a \in DOMAIN ipwnd : a # addr => all[a] = ipwnd[a]
    <2> HIDE DEF w
    <2> QED BY DEF With
  <1>6. DOMAIN ipwnd \subseteq Clients /\ hits \in [Clients -> Seq(Nat)] /\ now \in Nat
    BY <1>1 DEF WindowsOK, HitsOK
  <1>a. IF triggered THEN hits' = [hits EXCEPT ![addr] = <<>>] ELSE hits' = More(hits, addr)
    <2>1. Inc(addr).triggered = triggered
      <3> HIDE DEF triggered, all
      <3> QED BY <1>2
    <2> HIDE DEF triggered
    <2> QED BY <2>1 DEF Count
  <1>7. CASE triggered
    <2>1. hits' = [hits EXCEPT ![addr] = <<>>]
      BY <1>7, <1>a
    <2>2. kept = Without(all, addr)
      BY <1>7
    <2> HIDE DEF kept, all, triggered, w
    <2>3. /\ DOMAIN kept = DOMAIN ipwnd \ {addr}
          /\ \A a \in DOMAIN kept : kept[a] = ipwnd[a]
      BY <1>5, <2>2 DEF Without
    <2>4. /\ hits' \in [Clients -> Seq(Nat)]
          /\ hits'[addr] = <<>> /\ \A a \in Clients : a # addr => hits'[a] = hits[a]
      BY <1>6, <2>1
    <2>5. \A a \in Clients : \A i \in DOMAIN hits'[a] : hits'[a][i] <= now
      <3>1. DOMAIN hits'[addr] = {}
        BY <2>4
      <3> QED BY <1>1, <2>4, <3>1 DEF HitsOK
    <2>6. \A a \in DOMAIN kept : IsWindow(kept[a]) /\ Counts(hits'[a], kept[a])
      BY <1>1, <1>6, <2>3, <2>4 DEF WindowsOK
    <2>7. \A a \in Clients \ DOMAIN kept : Few(hits'[a])
      <3>1. Few(hits'[addr])
        BY <2>4 DEF Few
      <3> QED BY <1>1, <2>3, <2>4, <3>1 DEF WindowsOK
    <2>8. DOMAIN kept \subseteq Clients
      BY <1>6, <2>3
    <2> QED BY <1>1, <1>4, <2>4, <2>5, <2>6, <2>7, <2>8, AfterInc
  <1>8. CASE ~triggered
    <2>1. hits' = [a \in Clients |-> IF a = addr THEN Append(Recent(hits[a]), now) ELSE Recent(hits[a])]
      BY <1>8, <1>a DEF More
    <2>2. kept = all
      BY <1>8
    <2>3. addr \in DOMAIN ipwnd => w = Counted(ipwnd[addr]) /\ ~(Limit < w.count)
      BY <1>8
    <2>a. addr \notin DOMAIN ipwnd => w = NewWindow
      OBVIOUS
    <2> HIDE DEF kept, all, triggered, w
    <2>4. /\ \A a \in Clients : Recent(hits[a]) \in Seq(Nat)
          /\ \A a \in Clients : \A i \in DOMAIN Recent(hits[a]) : Recent(hits[a])[i] <= now
          /\ \A a \in Clients : \A v : Counts(hits[a], v) => Counts(Recent(hits[a]), v)
          /\ \A a \in Clients : Few(hits[a]) => Few(Recent(hits[a]))
      BY <1>1, RecentHits, PartCounts
    <2>5. /\ hits'[addr] = Append(Recent(hits[addr]), now)
          /\ \A a \in Clients : a # addr => hits'[a] = Recent(hits[a])
      BY <2>1
    <2>6. IsWindow(w) /\ Counts(hits'[addr], w)
      <3>1. CASE addr \in DOMAIN ipwnd
        <4>1. IsWindow(ipwnd[addr]) /\ Counts(Recent(hits[addr]), ipwnd[addr])
          BY <1>1, <2>4, <3>1 DEF WindowsOK
        <4>2. Counted(ipwnd[addr]).count <= Limit
          <5>1. Counted(ipwnd[addr]).count \in Nat /\ Limit \in Nat
            BY <1>6, <4>1, CountsItself, Ticks
          <5> QED BY <2>3, <3>1, <5>1
        <4> QED BY <1>1, <2>3, <2>4, <2>5, <3>1, <4>1, <4>2, IncCounts
      <3>2. CASE addr \notin DOMAIN ipwnd
        <4>1. Few(Recent(hits[addr]))
          BY <1>1, <2>4, <3>2 DEF WindowsOK
        <4> QED BY <1>1, <2>a, <2>4, <2>5, <3>2, <4>1, NewCounts
      <3> QED BY <3>1, <3>2
    <2>7. hits' \in [Clients -> Seq(Nat)]
      <3>1. Append(Recent(hits[addr]), now) \in Seq(Nat)
        BY <1>6, <2>4, OneMoreHit
      <3> QED BY <2>1, <2>4, <3>1
    <2>8. \A a \in Clients : \A i \in DOMAIN hits'[a] : hits'[a][i] <= now
      <3>1. ASSUME NEW i \in DOMAIN Append(Recent(hits[addr]), now)
            PROVE  Append(Recent(hits[addr]), now)[i] <= now
        <4>1. Append(Recent(hits[addr]), now)[i] = now
              \/ (i \in DOMAIN Recent(hits[addr]) /\ Append(Recent(hits[addr]), now)[i] = Recent(hits[addr])[i])
          BY <1>6, <2>4, <3>1, OneMoreHit
        <4> QED BY <1>6, <2>4, <4>1
      <3> QED BY <2>4, <2>5, <3>1
    <2>9. \A a \in DOMAIN kept : IsWindow(kept[a]) /\ Counts(hits'[a], kept[a])
      BY <1>1, <1>5, <1>6, <2>2, <2>4, <2>5, <2>6 DEF WindowsOK
    <2>10. \A a \in Clients \ DOMAIN kept : Few(hits'[a])
      BY <1>1, <1>5, <2>2, <2>4, <2>5 DEF WindowsOK
    <2>11. DOMAIN kept \subseteq Clients
      BY <1>5, <1>6, <2>2
    <2> QED BY <1>1, <1>4, <2>7, <2>8, <2>9, <2>10, <2>11, AfterInc
  <1> QED BY <1>7, <1>8

\* Time passes; the table, the rules and the bans change nothing here.
LEMMA TimeRateInv ==
    ASSUME RateInv, ipwnd' = ipwnd, hits' = hits, now' = now \/ now' = now + 1
    PROVE  RateInv'
  <1>1. HitsOK /\ WindowsOK /\ now \in Nat /\ now' \in Nat /\ now <= now'
    BY DEF RateInv, HitsOK
  <1>2. hits \in [Clients -> Seq(Nat)] /\ \A a \in Clients : \A i \in DOMAIN hits[a] : hits[a][i] \in Nat
    BY <1>1 DEF HitsOK
  <1>3. HitsOK'
    BY <1>1, <1>2 DEF HitsOK
  <1>4. Wnd \in Nat
    BY Ticks
  <1>5. ASSUME NEW t \in Nat, t <= now, IsRecent(t)' PROVE IsRecent(t)
    <2>1. now' - t < Wnd
      BY <1>5 DEF IsRecent
    <2>2. \A x, y, z, w \in Nat : x <= y /\ y - z < w => x - z < w
      OBVIOUS
    <2>3. now - t < Wnd
      BY <1>1, <1>4, <2>1, <2>2, Zenon
    <2> QED BY <1>5, <2>3 DEF IsRecent
  <1>6. ASSUME NEW a \in DOMAIN ipwnd PROVE IsWindow(ipwnd[a])' /\ Counts(hits[a], ipwnd[a])'
    <2> DEFINE w == ipwnd[a]
               h == hits[a]
    <2>1. /\ IsWindow(w) /\ Counts(h, w) /\ w.start \in Nat /\ a \in Clients
          /\ \A i \in DOMAIN h : h[i] \in Nat /\ h[i] <= now
      BY <1>1, <1>2, <1>6 DEF WindowsOK, IsWindow, HitsOK
    <2>2. w' = w /\ h' = h
      OBVIOUS
    <2>3. IsWindow(w)'
      BY <1>1, <2>1, <2>2 DEF IsWindow
    <2> HIDE DEF w, h
    <2>4. ASSUME NEW t, NEW n, Bounded(t, n, w) PROVE Bounded(t, n, w)'
      <3>1. CASE BeganWith(t, n, w) \/ BeganAnew(t, n, w)
        BY <2>2, <3>1 DEF Bounded, BeganWith, BeganAnew
      <3>2. ASSUME NEW k \in Nat, MovedOn(t, n, w, k) PROVE Bounded(t, n, w)'
        <4>1. MovedOn(t, n, w, k)'
          BY <1>1, <1>4, <2>1, <2>2, <3>2 DEF MovedOn
        <4> QED BY <4>1 DEF Bounded
      <3> QED BY <2>4, <3>1, <3>2 DEF Bounded
    <2>5. Counts(h, w)'
      BY <1>5, <2>1, <2>2, <2>4 DEF Counts
    <2> QED BY <2>3, <2>5 DEF w, h
  <1>7. ASSUME NEW a \in Clients \ DOMAIN ipwnd PROVE Few(hits[a])'
    <2>1. Few(hits[a]) /\ \A i \in DOMAIN hits[a] : hits[a][i] \in Nat /\ hits[a][i] <= now
      BY <1>1, <1>2, <1>7 DEF WindowsOK, HitsOK
    <2> QED BY <1>5, <2>1 DEF Few
  <1>8. WindowsOK'
    BY <1>1, <1>6, <1>7 DEF WindowsOK
  <1> QED BY <1>3, <1>8 DEF RateInv

LEMMA InitRateInv == BlackListInit => RateInv
  <1> SUFFICES ASSUME BlackListInit PROVE RateInv
    OBVIOUS
  <1>1. /\ ipwnd = <<>> /\ now = 0 /\ hits = [a \in Clients |-> <<>>]
    BY DEF BlackListInit
  <1>2. DOMAIN ipwnd = {}
    BY <1>1
  <1>3. \A a \in Clients : hits[a] = <<>> /\ DOMAIN hits[a] = {}
    BY <1>1
  <1>4. HitsOK
    BY <1>1, <1>3 DEF HitsOK
  <1>5. WindowsOK
    BY <1>2, <1>3 DEF WindowsOK, Few
  <1> QED BY <1>4, <1>5 DEF RateInv

LEMMA NextRateInv == RequestsPerSec # 0 /\ RateInv /\ [BlackListNext]_blackListVars => RateInv'
  <1> SUFFICES ASSUME RequestsPerSec # 0, RateInv, [BlackListNext]_blackListVars PROVE RateInv'
    OBVIOUS
  <1>1. ASSUME NEW r \in Lines, ReadRule(r.prefix, r.allow) PROVE RateInv'
    BY <1>1, TimeRateInv DEF ReadRule
  <1>2. ASSUME NEW allow \in BOOLEAN, ReadAll(allow) PROVE RateInv'
    BY <1>2, TimeRateInv DEF ReadAll
  <1>3. CASE ReadEnd
    BY <1>3, TimeRateInv DEF ReadEnd
  <1>4. CASE ReadInvalid
    BY <1>4, TimeRateInv DEF ReadInvalid
  <1>5. ASSUME NEW a \in Clients, processIp(a) PROVE RateInv'
    <2>1. Admit(a, Unbanned) /\ now' = now
      BY <1>5 DEF processIp
    <2>2. \/ Count(a, Unbanned, Inc(a))
          \/ UNCHANGED <<ipwnd, hits>>
      BY <2>1 DEF Admit
    <2> QED BY <2>1, <2>2, CountRateInv, TimeRateInv
  <1>6. CASE Tick
    BY <1>6, TimeRateInv DEF Tick
  <1>7. CASE UNCHANGED blackListVars
    BY <1>7, TimeRateInv DEF blackListVars
  <1> QED BY <1>1, <1>2, <1>3, <1>4, <1>5, <1>6, <1>7 DEF BlackListNext

\* The bound since an address last tripped.
LEMMA FewHits ==
    ASSUME RateInv, RequestsPerSec # 0, NEW a \in Clients
    PROVE  Len(Recent(hits[a])) < 2 * Limit
  <1>1. HitsOK /\ WindowsOK /\ Limit \in Nat /\ 1 <= Limit /\ now \in Nat
    BY Ticks DEF RateInv, HitsOK
  <1>2. CASE Len(Recent(hits[a])) = 0
    BY <1>1, <1>2
  <1>3. ASSUME NEW j \in DOMAIN hits[a], IsRecent(hits[a][j]), Len(Recent(hits[a])) = Since(hits[a], j)
        PROVE  Len(Recent(hits[a])) < 2 * Limit
    <2>1. Since(hits[a], j) \in Nat
      BY <1>1 DEF HitsOK, Since
    <2>2. CASE a \in DOMAIN ipwnd
      <3>1. IsWindow(ipwnd[a]) /\ Bounded(hits[a][j], Since(hits[a], j), ipwnd[a])
        BY <1>1, <1>3, <2>2 DEF WindowsOK, Counts
      <3> QED BY <1>1, <1>3, <2>1, <3>1, BelowTwice
    <2>3. CASE a \notin DOMAIN ipwnd
      <3>1. Since(hits[a], j) < Limit
        BY <1>1, <1>3, <2>3 DEF WindowsOK, Few
      <3> QED BY <1>1, <1>3, <2>1, <3>1
    <2> QED BY <2>2, <2>3
  <1> QED BY <1>1, <1>2, <1>3, RecentHits

LEMMA RateInvariance == ASSUME RequestsPerSec # 0 PROVE BlackListSpec => []RateInv
  <1>1. RateInv /\ [BlackListNext]_blackListVars => RateInv'
    BY NextRateInv
  <1> QED BY <1>1, InitRateInv, PTL DEF BlackListSpec
-----------------------------------------------------------------------------
(* RadixTree: what the walk, the insertions and the erasures of a tree make  *)
(* of its entries.                                                           *)

\* The bit strings that nodes, rules and addresses are.
Keys == {a \in Seq({0, 1}) : Len(a) <= AddrLen}
Answers == BOOLEAN \cup {Inner}
Trees == {t \in UNION {[D -> Answers] : D \in SUBSET Keys} : <<>> \in DOMAIN t}

\* The entry a tree has for a key; Inner if it has none.
Entry(t, a) == IF HasLeaf(t, a) THEN t[a] ELSE Inner

LEMMA KeyIs ==
    ASSUME NEW a \in Keys
    PROVE  /\ a \in Seq({0, 1}) /\ Len(a) \in Nat /\ Len(a) <= AddrLen
           /\ DOMAIN a = 1 .. Len(a) /\ AddrLen \in Nat
           /\ \A i \in 1 .. Len(a) : a[i] \in {0, 1}
  BY BlackListAssumption DEF Keys

LEMMA SameBits ==
    ASSUME NEW a \in Keys, NEW b \in Keys, Len(a) = Len(b), \A i \in 1 .. Len(a) : a[i] = b[i]
    PROVE  a = b
  BY KeyIs

LEMMA TreeIs ==
    ASSUME NEW t \in Trees
    PROVE  /\ <<>> \in DOMAIN t /\ DOMAIN t \subseteq Keys
           /\ t \in [DOMAIN t -> Answers]
           /\ \A a \in DOMAIN t : a \in Keys /\ t[a] \in Answers
  BY DEF Trees

LEMMA TreeFrom ==
    ASSUME NEW D \in SUBSET Keys, NEW t \in [D -> Answers], <<>> \in D
    PROVE  t \in Trees /\ DOMAIN t = D
  BY DEF Trees

LEMMA EmptyKey == <<>> \in Keys /\ Len(<<>>) = 0
  BY BlackListAssumption DEF Keys

\* The bits of the way of a key.
LEMMA WayIs ==
    ASSUME NEW a \in Keys, NEW key \in Keys
    PROVE  OnWay(a, key) <=> \A i \in 1 .. Len(a) : a[i] = IF i <= Len(key) THEN key[i] ELSE 0
  <1> DEFINE s == radix_substr(key, 0, Len(a))
  <1>1. Len(a) \in Nat /\ Len(key) \in Nat /\ a \in Seq({0, 1}) /\ DOMAIN a = 1 .. Len(a)
    BY KeyIs
  <1>2. s = [i \in 1 .. Len(a) |-> IF i <= Len(key) THEN key[i] ELSE 0]
    BY <1>1 DEF radix_substr
  <1>3. a = [i \in 1 .. Len(a) |-> a[i]]
    BY <1>1
  <1> HIDE DEF s
  <1>4. OnWay(a, key) <=> s = a
    BY DEF OnWay, s
  <1>5. s = a => \A i \in 1 .. Len(a) : a[i] = IF i <= Len(key) THEN key[i] ELSE 0
    BY <1>2
  <1>6. (\A i \in 1 .. Len(a) : a[i] = IF i <= Len(key) THEN key[i] ELSE 0) => s = a
    BY <1>2, <1>3
  <1> QED BY <1>4, <1>5, <1>6

LEMMA OwnWay == ASSUME NEW key \in Keys PROVE OnWay(key, key)
  BY WayIs, KeyIs

LEMMA RootOnWay == ASSUME NEW key \in Keys PROVE OnWay(<<>>, key)
  BY WayIs, EmptyKey

\* Of two nodes on one way the longer begins with the shorter.
LEMMA WayOrder ==
    ASSUME NEW a \in Keys, NEW b \in Keys, NEW key \in Keys,
           OnWay(a, key), OnWay(b, key), Len(a) <= Len(b)
    PROVE  Begins(a, b) /\ (Len(a) = Len(b) => a = b)
  <1>1. Len(a) \in Nat /\ Len(b) \in Nat
    BY KeyIs
  <1>2. \A i \in 1 .. Len(a) : a[i] = b[i]
    BY <1>1, WayIs
  <1> QED BY <1>1, <1>2, SameBits DEF Begins

\* What a full-length key begins with is on its way.
LEMMA WayOfAddress ==
    ASSUME NEW a \in Keys, NEW key \in Keys, Len(key) = AddrLen
    PROVE  OnWay(a, key) <=> Begins(a, key)
  <1>1. Len(a) \in Nat /\ Len(key) \in Nat /\ Len(a) <= Len(key)
    BY KeyIs
  <1> QED BY <1>1, WayIs DEF Begins

LEMMA BeginsOnWay ==
    ASSUME NEW a \in Keys, NEW key \in Keys, Begins(a, key)
    PROVE  OnWay(a, key)
  <1>1. Len(a) \in Nat /\ Len(key) \in Nat
    BY KeyIs
  <1> QED BY <1>1, WayIs DEF Begins

LEMMA LongestIs ==
    ASSUME NEW s, s \subseteq Keys, s # {}
    PROVE  Longest(s) \in s /\ \A b \in s : Len(b) <= Len(Longest(s))
  <1> DEFINE lacks == {AddrLen - Len(a) : a \in s}
  <1>1. \A a \in s : Len(a) \in Nat /\ Len(a) <= AddrLen /\ AddrLen \in Nat
    BY KeyIs
  <1>2. lacks \subseteq Nat /\ lacks # {}
    BY <1>1
  <1>3. Least(lacks) \in lacks /\ \A y \in lacks : Least(lacks) <= y
    <2> HIDE DEF lacks
    <2> QED BY <1>2, LeastIs
  <1>4. PICK a \in s : Least(lacks) = AddrLen - Len(a)
    BY <1>3
  <1>5. ASSUME NEW b \in s PROVE Len(b) <= Len(a)
    <2>1. AddrLen - Len(b) \in lacks
      OBVIOUS
    <2>2. AddrLen - Len(a) <= AddrLen - Len(b)
      BY <1>3, <1>4, <2>1
    <2> QED BY <1>1, <2>2
  <1> QED BY <1>5 DEF Longest

LEMMA ShortestIs ==
    ASSUME NEW s, s \subseteq Keys, s # {}
    PROVE  Shortest(s) \in s /\ \A b \in s : Len(Shortest(s)) <= Len(b)
  <1> DEFINE lens == {Len(a) : a \in s}
  <1>1. \A a \in s : Len(a) \in Nat
    BY KeyIs
  <1>2. lens \subseteq Nat /\ lens # {}
    BY <1>1
  <1>3. Least(lens) \in lens /\ \A y \in lens : Least(lens) <= y
    <2> HIDE DEF lens
    <2> QED BY <1>2, LeastIs
  <1>4. PICK a \in s : Least(lens) = Len(a)
    BY <1>3
  <1>5. \A b \in s : Len(a) <= Len(b)
    BY <1>3, <1>4
  <1> QED BY <1>5 DEF Shortest

\* The last node on the way of a key; its own node if it has one.
LEMMA LastIs ==
    ASSUME NEW t \in Trees, NEW key \in Keys
    PROVE  /\ LastOnWay(t, key) \in DOMAIN t /\ OnWay(LastOnWay(t, key), key)
           /\ key \in DOMAIN t => LastOnWay(t, key) = key
           /\ \A a \in DOMAIN t : OnWay(a, key) /\ (key \in DOMAIN t => Len(a) <= Len(key))
                                    => Len(a) <= Len(LastOnWay(t, key))
  <1> DEFINE way == {a \in DOMAIN t : OnWay(a, key) /\ (key \in DOMAIN t => Len(a) <= Len(key))}
             last == LastOnWay(t, key)
  <1>1. DOMAIN t \subseteq Keys /\ <<>> \in DOMAIN t
    BY TreeIs
  <1>2. <<>> \in way
    BY <1>1, RootOnWay, EmptyKey, KeyIs
  <1>3. way \subseteq Keys /\ way # {}
    BY <1>1, <1>2
  <1>4. last \in way /\ \A b \in way : Len(b) <= Len(last)
    <2>1. last = Longest(way)
      BY DEF LastOnWay
    <2> HIDE DEF last, way
    <2> QED BY <1>3, <2>1, LongestIs
  <1>5. ASSUME key \in DOMAIN t PROVE last = key
    <2>1. key \in way
      BY <1>5, OwnWay, KeyIs
    <2>2. Len(last) = Len(key) /\ OnWay(last, key)
      <3> HIDE DEF last
      <3>1. Len(last) \in Nat /\ Len(key) \in Nat
        BY <1>1, <1>4, KeyIs
      <3> QED BY <1>4, <1>5, <2>1, <3>1
    <2>3. last \in Keys /\ Len(last) <= Len(key)
      BY <1>1, <1>4, <2>2, KeyIs
    <2> HIDE DEF last
    <2> QED BY <2>2, <2>3, WayOrder, OwnWay
  <1> HIDE DEF last
  <1> QED BY <1>4, <1>5 DEF last

\* The walk ends at the last node on the way, or at the child of it that departs from the way.
Departs(t, n, key) ==
    LET last == LastOnWay(t, key)
    IN /\ n \in DOMAIN t /\ ~OnWay(n, key)
       /\ key \notin DOMAIN t
       /\ Len(last) < Len(n)
       /\ Begins(radix_substr(key, 0, Len(last) + 1), n)
       /\ Parent(t, n) = last

\* A string that agrees with the way up to its last node and with the next bit.
LEMMA NextBit ==
    ASSUME NEW key \in Keys, NEW last \in Keys, NEW c \in Keys, OnWay(last, key)
    PROVE  Begins(radix_substr(key, 0, Len(last) + 1), c) <=>
             /\ Len(last) < Len(c) /\ Begins(last, c)
             /\ c[Len(last) + 1] = IF Len(last) + 1 <= Len(key) THEN key[Len(last) + 1] ELSE 0
  <1> DEFINE n == Len(last) + 1
             s == radix_substr(key, 0, n)
             bit(i) == IF i <= Len(key) THEN key[i] ELSE 0
  <1>1. Len(last) \in Nat /\ Len(key) \in Nat /\ Len(c) \in Nat /\ n \in Nat
    BY KeyIs
  <1>2. s = [i \in 1 .. n |-> bit(i)]
    BY <1>1 DEF radix_substr
  <1>3. s \in Seq({0, 1})
    <2>1. \A i \in 1 .. n : bit(i) \in {0, 1}
      BY <1>1, KeyIs
    <2> HIDE DEF bit
    <2> QED BY <1>1, <1>2, <2>1
  <1>4. Len(s) = n
    BY <1>1, <1>2, <1>3
  <1>5. \A i \in 1 .. n : s[i] = bit(i)
    BY <1>2
  <1>6. \A i \in 1 .. Len(last) : last[i] = bit(i)
    BY WayIs
  <1> HIDE DEF s, bit
  <1>7. Begins(s, c) <=> n <= Len(c) /\ \A i \in 1 .. n : bit(i) = c[i]
    BY <1>4, <1>5 DEF Begins
  <1>8. Begins(last, c) <=> Len(last) <= Len(c) /\ \A i \in 1 .. Len(last) : bit(i) = c[i]
    BY <1>6 DEF Begins
  <1>9. (\A i \in 1 .. n : bit(i) = c[i]) <=>
            (\A i \in 1 .. Len(last) : bit(i) = c[i]) /\ bit(n) = c[n]
    <2>1. \A i \in 1 .. n : i \in 1 .. Len(last) \/ i = n
      BY <1>1
    <2>2. \A i \in 1 .. Len(last) : i \in 1 .. n
      BY <1>1
    <2>3. n \in 1 .. n
      BY <1>1
    <2> HIDE DEF n
    <2> QED BY <2>1, <2>2, <2>3
  <1> QED BY <1>1, <1>7, <1>8, <1>9 DEF s, bit

LEMMA FoundIs ==
    ASSUME NEW t \in Trees, NEW key \in Keys
    PROVE  \/ find_node(t, key) = LastOnWay(t, key)
           \/ Departs(t, find_node(t, key), key)
  <1> DEFINE last == LastOnWay(t, key)
             way == radix_substr(key, 0, Len(last) + 1)
             child == {c \in DOMAIN t : Begins(way, c)}
             n == Shortest(child)
  <1>1. DOMAIN t \subseteq Keys /\ last \in DOMAIN t /\ last \in Keys /\ OnWay(last, key)
    BY TreeIs, LastIs
  <1>2. CASE last = key \/ child = {}
    <2>1. find_node(t, key) = last
      BY <1>2 DEF find_node
    <2> QED BY <2>1
  <1>3. CASE ~(last = key \/ child = {})
    <2>1. find_node(t, key) = n
      BY <1>3 DEF find_node
    <2>2. n \in child /\ \A b \in child : Len(n) <= Len(b)
      <3>1. child \subseteq Keys /\ child # {}
        BY <1>1, <1>3
      <3> HIDE DEF child
      <3> QED BY <3>1, ShortestIs
    <2>3. key \notin DOMAIN t
      BY <1>3, LastIs
    <2> HIDE DEF n, last
    <2>4. n \in Keys /\ n \in DOMAIN t /\ Begins(way, n)
      BY <1>1, <2>2
    <2>5. Len(last) < Len(n) /\ Begins(last, n)
      BY <1>1, <2>4, NextBit
    <2>6. Len(last) \in Nat /\ Len(n) \in Nat
      BY <1>1, <2>4, KeyIs
    <2>7. ~OnWay(n, key)
      <3> SUFFICES ASSUME OnWay(n, key) PROVE FALSE
        OBVIOUS
      <3>1. Len(n) <= Len(last)
        BY <2>3, <2>4, LastIs DEF last
      <3> QED BY <2>5, <2>6, <3>1
    <2>8. Parent(t, n) = last
      <3> DEFINE above == {b \in DOMAIN t : Begins(b, n) /\ b # n}
                 p == Longest(above)
      <3>1. last \in above
        BY <1>1, <2>5, <2>6
      <3>2. above \subseteq Keys /\ above # {}
        BY <1>1, <3>1
      <3>3. p \in above /\ \A b \in above : Len(b) <= Len(p)
        <4> HIDE DEF above
        <4> QED BY <3>2, LongestIs
      <3>4. Parent(t, n) = p
        BY DEF Parent
      <3> HIDE DEF p
      <3>5. p \in Keys /\ Begins(p, n) /\ p # n /\ Len(last) <= Len(p) /\ p \in DOMAIN t
        BY <1>1, <3>1, <3>3
      <3>6. Len(p) \in Nat /\ Len(p) <= Len(n)
        BY <3>5, KeyIs DEF Begins
      <3>7. Len(p) < Len(n)
        <4>1. Len(p) # Len(n)
          BY <2>4, <3>5, SameBits DEF Begins
        <4> QED BY <2>6, <3>6, <4>1
      <3>8. CASE Len(p) = Len(last)
        <4>1. \A i \in 1 .. Len(p) : p[i] = last[i]
          BY <2>5, <2>6, <3>5, <3>6, <3>8 DEF Begins
        <4> QED BY <1>1, <3>4, <3>5, <3>8, <4>1, SameBits
      <3>9. CASE Len(p) # Len(last)
        <4>1. Len(last) < Len(p)
          BY <2>6, <3>5, <3>6, <3>9
        <4>2. Begins(last, p)
          BY <2>5, <2>6, <3>5, <3>6, <4>1 DEF Begins
        <4>3. p[Len(last) + 1] = n[Len(last) + 1]
          <5>1. Len(last) + 1 \in 1 .. Len(p)
            BY <2>6, <3>6, <4>1
          <5> QED BY <3>5, <5>1 DEF Begins
        <4>4. Begins(way, p)
          BY <1>1, <2>4, <3>5, <4>1, <4>2, <4>3, NextBit
        <4>5. Len(n) <= Len(p)
          BY <2>2, <3>5, <4>4
        <4> QED BY <2>6, <3>6, <3>7, <4>5
      <3> QED BY <3>8, <3>9
    <2>9. Departs(t, n, key)
      BY <2>3, <2>4, <2>5, <2>7, <2>8 DEF Departs, last
    <2> QED BY <2>1, <2>9
  <1> QED BY <1>2, <1>3

\* The entries of a tree that an address begins with.
Covers(t, key) == {a \in Keys : Begins(a, key) /\ Entry(t, a) # Inner}

\* longest_match answers with the longest entry the address begins with.
LEMMA LongestMatch ==
    ASSUME NEW t \in Trees, NEW key \in Keys, Len(key) = AddrLen
    PROVE  longest_match(t, key) =
             IF Covers(t, key) = {} THEN Inner ELSE Entry(t, Longest(Covers(t, key)))
  <1> DEFINE last == LastOnWay(t, key)
             n == find_node(t, key)
             from == IF OnWay(n, key) THEN n ELSE Parent(t, n)
             leaves == {a \in DOMAIN t : Begins(a, from) /\ HasLeaf(t, a)}
  <1>1. DOMAIN t \subseteq Keys /\ last \in DOMAIN t /\ last \in Keys /\ OnWay(last, key)
    BY TreeIs, LastIs
  <1>2. from = last
    BY <1>1, FoundIs DEF Departs
  <1>3. \A a \in Keys : Begins(a, last) /\ HasLeaf(t, a) <=> Begins(a, key) /\ HasLeaf(t, a)
    <2> SUFFICES ASSUME NEW a \in Keys, HasLeaf(t, a) PROVE Begins(a, last) <=> Begins(a, key)
      BY Zenon
    <2> HIDE DEF last
    <2>1. Len(a) \in Nat /\ Len(last) \in Nat /\ Len(key) \in Nat
      BY <1>1, KeyIs
    <2>2. Begins(last, key)
      BY <1>1, WayOfAddress
    <2>3. Begins(a, last) => Begins(a, key)
      BY <2>1, <2>2 DEF Begins
    <2>4. ASSUME Begins(a, key) PROVE Begins(a, last)
      <3>1. OnWay(a, key)
        BY <2>4, WayOfAddress
      <3>2. Len(a) <= Len(last)
        BY <2>4, <3>1, LastIs DEF HasLeaf, last, Begins
      <3> QED BY <1>1, <3>1, <3>2, WayOrder
    <2> QED BY <2>3, <2>4
  <1>4. leaves = Covers(t, key)
    <2>1. \A a : HasLeaf(t, a) => a \in DOMAIN t /\ a \in Keys
      BY <1>1 DEF HasLeaf
    <2>2. \A a : HasLeaf(t, a) <=> Entry(t, a) # Inner
      BY DEF HasLeaf, Entry
    <2> HIDE DEF from, last
    <2> QED BY <1>2, <1>3, <2>1, <2>2 DEF Covers
  <1>5. longest_match(t, key) = IF leaves = {} THEN Inner ELSE t[Longest(leaves)]
    BY DEF longest_match, MatchFrom
  <1>6. leaves # {} => t[Longest(leaves)] = Entry(t, Longest(leaves))
    <2>1. leaves \subseteq Keys /\ \A a \in leaves : HasLeaf(t, a)
      BY <1>1
    <2> HIDE DEF leaves
    <2> QED BY <2>1, LongestIs DEF Entry
  <1> HIDE DEF leaves
  <1> QED BY <1>4, <1>5, <1>6

\* A bounded set of naturals has a greatest element.
LEMMA GreatestExists ==
    ASSUME NEW n \in Nat, NEW s, s \subseteq 0 .. n, s # {}
    PROVE  \E i \in s : \A j \in s : j <= i
  <1> DEFINE lacks == {n - i : i \in s}
  <1>0. \A i \in s : i \in Nat /\ n - i \in Nat
    OBVIOUS
  <1>1. lacks \subseteq Nat /\ lacks # {}
    BY <1>0
  <1>2. Least(lacks) \in lacks /\ \A y \in lacks : Least(lacks) <= y
    <2> HIDE DEF lacks
    <2> QED BY <1>1, LeastIs
  <1>3. PICK i \in s : Least(lacks) = n - i
    BY <1>2
  <1>4. ASSUME NEW j \in s PROVE j <= i
    <2>1. n - j \in lacks
      OBVIOUS
    <2>2. n - i <= n - j
      BY <1>2, <1>3, <2>1
    <2> QED BY <1>0, <2>2
  <1> QED BY <1>4

LEMMA AgreementIs ==
    ASSUME NEW a \in Keys, NEW b \in Keys
    PROVE  /\ Agreement(a, b) \in Keys
           /\ Begins(Agreement(a, b), a) /\ Begins(Agreement(a, b), b)
           /\ \A i \in 0 .. Len(a) : i <= Len(b) /\ (\A j \in 1 .. i : a[j] = b[j])
                                        => i <= Len(Agreement(a, b))
  <1> DEFINE alike == {i \in 0 .. Len(a) : i <= Len(b) /\ \A j \in 1 .. i : a[j] = b[j]}
             m == CHOOSE i \in alike : \A j \in alike : j <= i
  <1>1. Len(a) \in Nat /\ Len(b) \in Nat /\ a \in Seq({0, 1}) /\ Len(a) <= AddrLen /\ AddrLen \in Nat
    BY KeyIs
  <1>2. 0 \in alike /\ alike \subseteq 0 .. Len(a)
    BY <1>1
  <1>3. m \in alike /\ \A j \in alike : j <= m
    <2>1. \E i \in alike : \A j \in alike : j <= i
      <3> HIDE DEF alike
      <3> QED BY <1>1, <1>2, GreatestExists
    <2> HIDE DEF alike
    <2> QED BY <2>1
  <1>4. Agreement(a, b) = SubSeq(a, 1, m)
    BY DEF Agreement
  <1> HIDE DEF m
  <1>5. m \in Nat /\ m <= Len(a) /\ m <= Len(b) /\ \A j \in 1 .. m : a[j] = b[j]
    BY <1>1, <1>3
  <1>6. /\ SubSeq(a, 1, m) \in Seq({0, 1}) /\ Len(SubSeq(a, 1, m)) = m
        /\ \A j \in 1 .. m : SubSeq(a, 1, m)[j] = a[j]
    BY <1>1, <1>5
  <1>7. SubSeq(a, 1, m) \in Keys
    BY <1>1, <1>5, <1>6 DEF Keys
  <1>8. Begins(SubSeq(a, 1, m), a) /\ Begins(SubSeq(a, 1, m), b)
    BY <1>5, <1>6 DEF Begins
  <1> QED BY <1>3, <1>4, <1>6, <1>7, <1>8

\* A tree has the entries of another but for one, or all of them.
Changed(t, u, key, v) == u \in Trees /\ \A a : Entry(u, a) = IF a = key THEN v ELSE Entry(t, a)
SameEntries(t, u) == u \in Trees /\ \A a : Entry(u, a) = Entry(t, a)

LEMMA ChangedSame ==
    /\ \A t, u, w, key, v : Changed(t, u, key, v) /\ SameEntries(u, w) => Changed(t, w, key, v)
    /\ \A t, u, w, key, v : SameEntries(t, u) /\ Changed(u, w, key, v) => Changed(t, w, key, v)
    /\ \A t, u, key : Changed(t, u, key, Inner) /\ Entry(t, key) = Inner => SameEntries(t, u)
  BY DEF Changed, SameEntries

\* What adding and taking away a node do to the entries.
LEMMA WithEntry ==
    ASSUME NEW t \in Trees, NEW n \in Keys, NEW v \in Answers
    PROVE  Changed(t, With(t, n, v), n, v)
  <1> DEFINE w == With(t, n, v)
  <1>1. w = [y \in DOMAIN t \cup {n} |-> IF y = n THEN v ELSE t[y]]
    BY DEF With
  <1>2. w \in [DOMAIN t \cup {n} -> Answers] /\ DOMAIN t \cup {n} \in SUBSET Keys
    BY <1>1, TreeIs
  <1>3. w \in Trees
    BY <1>2, TreeIs, TreeFrom
  <1>4. ASSUME NEW a PROVE Entry(w, a) = IF a = n THEN v ELSE Entry(t, a)
    <2>1. CASE a = n
      BY <1>1, <2>1 DEF Entry, HasLeaf
    <2>2. CASE a # n /\ a \in DOMAIN t
      BY <1>1, <2>2 DEF Entry, HasLeaf
    <2>3. CASE a # n /\ a \notin DOMAIN t
      BY <1>1, <2>3 DEF Entry, HasLeaf
    <2> QED BY <2>1, <2>2, <2>3
  <1> HIDE DEF w
  <1>5. Changed(t, w, n, v)
    BY <1>3, <1>4 DEF Changed
  <1> QED BY <1>5 DEF w

LEMMA WithoutEntry ==
    ASSUME NEW t \in Trees, NEW n \in Keys, n # <<>>
    PROVE  Changed(t, Without(t, n), n, Inner)
  <1> DEFINE w == Without(t, n)
  <1>1. w = [y \in DOMAIN t \ {n} |-> t[y]]
    BY DEF Without
  <1>2. w \in [DOMAIN t \ {n} -> Answers] /\ DOMAIN t \ {n} \in SUBSET Keys
    BY <1>1, TreeIs
  <1>3. w \in Trees
    BY <1>2, TreeIs, TreeFrom
  <1>4. ASSUME NEW a PROVE Entry(w, a) = IF a = n THEN Inner ELSE Entry(t, a)
    <2>1. CASE a = n
      BY <1>1, <2>1 DEF Entry, HasLeaf
    <2>2. CASE a # n /\ a \in DOMAIN t
      BY <1>1, <2>2 DEF Entry, HasLeaf
    <2>3. CASE a # n /\ a \notin DOMAIN t
      BY <1>1, <2>3 DEF Entry, HasLeaf
    <2> QED BY <2>1, <2>2, <2>3
  <1> HIDE DEF w
  <1>5. Changed(t, w, n, Inner)
    BY <1>3, <1>4 DEF Changed
  <1> QED BY <1>5 DEF w

\* insert makes the entry it is called for, unless there is one, and no other.
LEMMA InsertEntry ==
    ASSUME NEW t \in Trees, NEW key \in Keys, NEW v \in BOOLEAN, ~PastEnd(t, key)
    PROVE  IF Entry(t, key) = Inner THEN Changed(t, insert(t, key, v), key, v)
           ELSE insert(t, key, v) = t
  <1> DEFINE last == LastOnWay(t, key)
             n == find_node(t, key)
  <1>1. last \in DOMAIN t /\ last \in Keys /\ OnWay(last, key) /\ (key \in DOMAIN t => last = key)
    BY TreeIs, LastIs
  <1>2. v \in Answers /\ Inner \in Answers
    BY DEF Answers
  <1>3. insert(t, key, v) = InsertAt(t, n, key, v)
    BY DEF insert
  <1>4. n = last \/ Departs(t, n, key)
    BY FoundIs
  <1> HIDE DEF last, n
  <1>5. CASE n = key /\ HasLeaf(t, n)
    <2>1. insert(t, key, v) = t /\ Entry(t, key) # Inner
      BY <1>3, <1>5 DEF InsertAt, Entry, HasLeaf
    <2> QED BY <2>1
  <1>6. CASE ~(n = key /\ HasLeaf(t, n)) /\ n = last
    <2>1. insert(t, key, v) = With(t, key, v)
      BY <1>1, <1>3, <1>6 DEF InsertAt, append
    <2>2. Entry(t, key) = Inner
      BY <1>1, <1>6 DEF Entry, HasLeaf
    <2> QED BY <1>2, <2>1, <2>2, WithEntry
  <1>7. CASE ~(n = key /\ HasLeaf(t, n)) /\ Departs(t, n, key)
    <2> DEFINE m == Agreement(n, key)
    <2>1. insert(t, key, v) = With(With(t, m, Inner), key, v)
      BY <1>3, <1>7 DEF InsertAt, append, prepend, Departs
    <2>2. /\ n \in DOMAIN t /\ n \in Keys /\ key \notin DOMAIN t
          /\ Begins(radix_substr(key, 0, Len(last) + 1), n)
      BY <1>7, TreeIs DEF Departs, last
    <2>3. Len(last) \in Nat /\ Len(key) \in Nat /\ Len(n) \in Nat
      BY <1>1, <2>2, KeyIs
    <2>4. Len(last) < Len(key)
      <3>1. Len(last) <= Len(key)
        BY <2>3 DEF PastEnd, last
      <3>2. Len(last) # Len(key)
        BY <1>1, <2>2, <3>1, WayOrder, OwnWay
      <3> QED BY <2>3, <3>1, <3>2
    <2>5. Len(last) + 1 <= Len(m)
      <3>1. /\ Len(last) < Len(n) /\ Begins(last, n) /\ n[Len(last) + 1] = key[Len(last) + 1]
        BY <1>1, <2>2, <2>3, <2>4, NextBit
      <3>2. \A j \in 1 .. Len(last) : n[j] = key[j]
        BY <1>1, <2>3, <2>4, <3>1, WayIs DEF Begins
      <3>3. \A j \in 1 .. (Len(last) + 1) : n[j] = key[j]
        <4>1. \A j \in 1 .. (Len(last) + 1) : j \in 1 .. Len(last) \/ j = Len(last) + 1
          BY <2>3
        <4> QED BY <3>1, <3>2, <4>1
      <3>4. Len(last) + 1 \in 0 .. Len(n) /\ Len(last) + 1 <= Len(key)
        BY <2>3, <2>4, <3>1
      <3> QED BY <2>2, <3>3, <3>4, AgreementIs
    <2>6. m \in Keys /\ Begins(m, key)
      BY <2>2, AgreementIs
    <2> HIDE DEF m
    <2>7. m \notin DOMAIN t
      <3> SUFFICES ASSUME m \in DOMAIN t PROVE FALSE
        OBVIOUS
      <3>1. OnWay(m, key)
        BY <2>6, BeginsOnWay
      <3>2. Len(m) <= Len(last)
        BY <2>2, <3>1, LastIs DEF last
      <3>3. Len(m) \in Nat
        BY <2>6, KeyIs
      <3> QED BY <2>3, <2>5, <3>2, <3>3
    <2>8. Entry(t, m) = Inner /\ Entry(t, key) = Inner
      BY <2>2, <2>7 DEF Entry, HasLeaf
    <2>9. Changed(t, With(t, m, Inner), m, Inner)
      BY <1>2, <2>6, WithEntry
    <2>10. SameEntries(t, With(t, m, Inner))
      BY <2>8, <2>9, ChangedSame
    <2>11. Changed(With(t, m, Inner), insert(t, key, v), key, v)
      BY <1>2, <2>1, <2>10, WithEntry DEF SameEntries
    <2> QED BY <2>8, <2>10, <2>11, ChangedSame
  <1> QED BY <1>4, <1>5, <1>6, <1>7

LEMMA MergeEntry ==
    ASSUME NEW t \in Trees, NEW n \in Keys
    PROVE  SameEntries(t, Merge(t, n))
  <1>1. CASE Merge(t, n) = t
    BY <1>1 DEF SameEntries
  <1>2. CASE Merge(t, n) # t
    <2>1. n # <<>> /\ ~HasLeaf(t, n) /\ Merge(t, n) = Without(t, n)
      BY <1>2 DEF Merge
    <2>2. Entry(t, n) = Inner
      BY <2>1 DEF Entry
    <2>3. Changed(t, Without(t, n), n, Inner)
      BY <2>1, WithoutEntry
    <2> QED BY <2>1, <2>2, <2>3, ChangedSame
  <1> QED BY <1>1, <1>2

\* erase takes away the entry of an address and no other.
LEMMA EraseEntry ==
    ASSUME NEW t \in Trees, NEW key \in Keys, Len(key) = AddrLen
    PROVE  Changed(t, erase(t, key), key, Inner)
  <1>1. key # <<>>
    BY EmptyKey, BlackListAssumption
  <1>2. CASE ~HasLeaf(t, key)
    <2>1. erase(t, key) = t /\ Entry(t, key) = Inner
      BY <1>2 DEF erase, Entry
    <2> QED BY <2>1 DEF Changed
  <1>3. CASE HasLeaf(t, key)
    <2>1. key \in DOMAIN t /\ LastOnWay(t, key) = key
      BY <1>3, LastIs DEF HasLeaf
    <2>2. find_node(t, key) = key
      BY <2>1, FoundIs DEF Departs
    <2>3. erase(t, key) = EraseLeaf(t, key)
      BY <1>3, <2>2 DEF erase
    <2>4. CASE ChildrenOf(t, key) = {}
      <3>1. erase(t, key) = Merge(Without(t, key), Parent(t, key))
        BY <1>1, <2>3, <2>4 DEF EraseLeaf
      <3>2. Parent(t, key) \in Keys
        <4> DEFINE above == {b \in DOMAIN t : Begins(b, key) /\ b # key}
        <4>1. <<>> \in above
          BY <1>1, TreeIs, EmptyKey, KeyIs DEF Begins
        <4>2. above \subseteq Keys /\ above # {}
          BY <4>1, TreeIs
        <4>3. Parent(t, key) = Longest(above)
          BY DEF Parent
        <4> HIDE DEF above
        <4> QED BY <4>2, <4>3, LongestIs
      <3>3. Changed(t, Without(t, key), key, Inner)
        BY <1>1, WithoutEntry
      <3>4. SameEntries(Without(t, key), erase(t, key))
        BY <3>1, <3>2, <3>3, MergeEntry DEF Changed
      <3> QED BY <3>3, <3>4, ChangedSame
    <2>5. CASE ChildrenOf(t, key) # {}
      <3>1. erase(t, key) = Merge(With(t, key, Inner), key)
        BY <2>3, <2>5 DEF EraseLeaf
      <3>2. Inner \in Answers
        BY DEF Answers
      <3>3. Changed(t, With(t, key, Inner), key, Inner)
        BY <3>2, WithEntry
      <3>4. SameEntries(With(t, key, Inner), erase(t, key))
        BY <3>1, <3>3, MergeEntry DEF Changed
      <3> QED BY <3>3, <3>4, ChangedSame
    <2> QED BY <2>4, <2>5
  <1> QED BY <1>2, <1>3

-----------------------------------------------------------------------------
(* BlackList: the entries of the table against the rules and the bans.       *)

Rules == [prefix : Keys, allow : BOOLEAN, kept : BOOLEAN]
Bans == [until : Nat, addr : Clients]

\* No rule that went in is covered by an earlier one, and only such rules did not.
RulesOK ==
    /\ rules \in Seq(Rules)
    /\ \A i, j \in DOMAIN rules :
          rules[i].kept /\ rules[j].kept /\ i < j => ~Begins(rules[i].prefix, rules[j].prefix)
    /\ SkippedForEarlier
    /\ default \in BOOLEAN

\* A table has for a prefix what the rules say of it.
ByRules(t, p) ==
    /\ \A i \in DOMAIN rules : rules[i].kept /\ rules[i].prefix = p => Entry(t, p) = rules[i].allow
    /\ Entry(t, p) # Inner => \E i \in DOMAIN rules : rules[i].kept /\ rules[i].prefix = p

\* It does so for all but the addresses that were banned once.
TableOK(t) == t \in Trees /\ \A p \in Keys : ~Tripped(p) => ByRules(t, p)

BanTime == banSec * Second
IsBanned(b, a) == \E i \in DOMAIN b : b[i].addr = a

\* The bans b end in the order they were made, each ban-ip-sec after the address made too many
\* requests.
QueueOK(b) ==
    /\ b \in Seq(Bans)
    /\ \A i, j \in DOMAIN b : i < j => b[i].until <= b[j].until
    /\ \A i \in DOMAIN b : b[i].until <= now + BanTime /\ Tripped(b[i].addr)
    /\ \A i \in DOMAIN b : ~OwnRule(b[i].addr) => b[i].until = tripped[b[i].addr] + BanTime

\* An address that was banned, and has no rule of its own, has an entry as long as its ban is
\* there, and its ban is there until it is over.
BansOK(t, b) ==
    \A a \in Clients : Tripped(a) /\ ~OwnRule(a) =>
        IF banSec = 0 \/ IsBanned(b, a) THEN Entry(t, a) = FALSE
        ELSE Entry(t, a) = Inner /\ tripped[a] + BanTime <= now

\* Nobody is banned before the server runs, or if requests are not counted.
TrippedOK ==
    /\ now \in Nat /\ banSec \in Nat
    /\ tripped \in [Clients -> Nat \cup {Never}]
    /\ stage # "serving" \/ RequestsPerSec = 0 => \A a \in Clients : ~Tripped(a)

\* The inductive invariant for FirstMatch and BanExact.
MatchInv == RulesOK /\ TrippedOK /\ TableOK(table) /\ QueueOK(banned) /\ BansOK(table, banned)

LEMMA AddressIs ==
    /\ \A a \in Addresses : a \in Keys /\ Len(a) = AddrLen
    /\ \A a \in Clients : a \in Addresses /\ a \in Keys /\ Len(a) = AddrLen
    /\ \A a : Tripped(a) => a \in Clients /\ a \in Keys /\ Len(a) = AddrLen
  <1>1. AddrLen \in Nat
    BY BlackListAssumption
  <1>2. ASSUME NEW a \in Addresses PROVE a \in Keys /\ Len(a) = AddrLen
    <2>1. a \in Seq({0, 1}) /\ Len(a) = AddrLen
      BY <1>1, <1>2 DEF Addresses
    <2> QED BY <1>1, <2>1 DEF Keys
  <1>3. Clients \subseteq Addresses
    BY BlackListAssumption DEF Addresses
  <1> QED BY <1>2, <1>3 DEF Tripped

LEMMA LineIs == \A r \in Lines : r.prefix \in Keys /\ r.allow \in BOOLEAN
  <1> SUFFICES ASSUME NEW r \in Lines PROVE r.prefix \in Keys /\ r.allow \in BOOLEAN
    OBVIOUS
  <1>1. r \in [prefix : UNION {[1 .. n -> {0, 1}] : n \in 1 .. AddrLen}, allow : BOOLEAN]
    BY BlackListAssumption
  <1>2. PICK n \in 1 .. AddrLen : r.prefix \in [1 .. n -> {0, 1}]
    BY <1>1
  <1>3. n \in Nat /\ n <= AddrLen
    BY <1>2, BlackListAssumption
  <1>4. r.prefix \in Seq({0, 1}) /\ Len(r.prefix) = n
    BY <1>2, <1>3
  <1> QED BY <1>1, <1>3, <1>4 DEF Keys

\* The network address of a prefix begins with it.
LEMMA NetworkAddress ==
    ASSUME NEW p \in Keys
    PROVE  /\ radix_substr(p, 0, AddrLen) \in Keys
           /\ Len(radix_substr(p, 0, AddrLen)) = AddrLen
           /\ Begins(p, radix_substr(p, 0, AddrLen))
  <1> DEFINE s == radix_substr(p, 0, AddrLen)
  <1>1. /\ Len(p) \in Nat /\ Len(p) <= AddrLen /\ AddrLen \in Nat
        /\ \A i \in 1 .. Len(p) : p[i] \in {0, 1}
    BY KeyIs
  <1>2. s = [i \in 1 .. AddrLen |-> IF i <= Len(p) THEN p[i] ELSE 0]
    BY <1>1 DEF radix_substr
  <1>3. \A i \in 1 .. AddrLen : (IF i <= Len(p) THEN p[i] ELSE 0) \in {0, 1}
    BY <1>1
  <1>4. s \in Seq({0, 1}) /\ Len(s) = AddrLen
    BY <1>1, <1>2, <1>3
  <1>5. \A i \in 1 .. Len(p) : p[i] = s[i]
    BY <1>1, <1>2
  <1> HIDE DEF s
  <1>6. s \in Keys /\ Len(s) = AddrLen /\ Begins(p, s)
    BY <1>1, <1>4, <1>5 DEF Keys, Begins
  <1> QED BY <1>6 DEF s

\* Of two strings an address begins with, the longer begins with the shorter.
LEMMA CoverOrder ==
    ASSUME NEW a \in Keys, NEW b \in Keys, NEW key \in Keys, Begins(a, key), Begins(b, key)
    PROVE  /\ Len(a) <= Len(b) => Begins(a, b)
           /\ Len(a) = Len(b) => a = b
           /\ Len(a) < Len(b) \/ Len(b) <= Len(a)
           /\ Len(a) <= Len(key) /\ (Len(a) = Len(key) => a = key)
  <1>1. Len(a) \in Nat /\ Len(b) \in Nat /\ Len(key) \in Nat
    BY KeyIs
  <1>2. OnWay(a, key) /\ OnWay(b, key)
    BY BeginsOnWay
  <1>3. Len(a) <= Len(b) => Begins(a, b) /\ (Len(a) = Len(b) => a = b)
    BY <1>2, WayOrder
  <1>4. Len(a) <= Len(key) /\ (Len(a) = Len(key) => a = key)
    BY <1>1, SameBits DEF Begins
  <1> QED BY <1>1, <1>3, <1>4

\* What find says of an address whose own entry is there.
LEMMA OwnEntry ==
    ASSUME NEW t \in Trees, NEW a \in Keys, Len(a) = AddrLen, Entry(t, a) # Inner
    PROVE  find(t, a).allow = Entry(t, a)
  <1> DEFINE s == Covers(t, a)
  <1>1. Begins(a, a)
    BY KeyIs DEF Begins
  <1>2. a \in s /\ s \subseteq Keys
    BY <1>1 DEF Covers
  <1>3. Longest(s) \in s /\ Len(a) <= Len(Longest(s))
    BY <1>2, LongestIs
  <1>4. Longest(s) \in Keys /\ Begins(Longest(s), a)
    BY <1>3 DEF Covers
  <1>5. Longest(s) = a
    <2>1. Len(Longest(s)) <= Len(a) /\ (Len(Longest(s)) = Len(a) => Longest(s) = a)
      BY <1>1, <1>4, CoverOrder
    <2>2. Len(Longest(s)) \in Nat /\ Len(a) \in Nat
      BY <1>4, KeyIs
    <2> QED BY <1>3, <2>1, <2>2
  <1>6. longest_match(t, a) = Entry(t, a)
    BY <1>2, <1>5, LongestMatch
  <1> QED BY <1>6 DEF find

LEMMA RuleTypes ==
    ASSUME RulesOK
    PROVE  /\ Len(rules) \in Nat /\ DOMAIN rules = 1 .. Len(rules) /\ DOMAIN rules \subseteq Nat
           /\ \A i \in DOMAIN rules : rules[i].prefix \in Keys /\ rules[i].allow \in BOOLEAN
           /\ \A i \in DOMAIN rules : rules[i].kept \in BOOLEAN
  <1>1. rules \in Seq(Rules)
    BY DEF RulesOK
  <1>2. Len(rules) \in Nat /\ DOMAIN rules = 1 .. Len(rules)
    BY <1>1
  <1>3. \A i \in DOMAIN rules : rules[i] \in Rules
    BY <1>1
  <1>4. \A r \in Rules : r.prefix \in Keys /\ r.allow \in BOOLEAN /\ r.kept \in BOOLEAN
    BY DEF Rules
  <1>5. \A i \in DOMAIN rules :
           rules[i].prefix \in Keys /\ rules[i].allow \in BOOLEAN /\ rules[i].kept \in BOOLEAN
    BY <1>3, <1>4, Zenon
  <1> QED BY <1>2, <1>5

\* A table that has for every prefix of an address what the rules say of it answers as the first
\* rule of the file that covers the address.
LEMMA RulesDecide ==
    ASSUME RulesOK, NEW t \in Trees, NEW a \in Keys, Len(a) = AddrLen,
           \A p \in Keys : Begins(p, a) => ByRules(t, p)
    PROVE  find(t, a).allow = RuledAllow(a)
  <1> DEFINE s == Covers(t, a)
             l == Longest(s)
             cov == Covering(a)
  <1>1. /\ DOMAIN rules \subseteq Nat
        /\ \A i \in DOMAIN rules : rules[i].prefix \in Keys /\ rules[i].allow \in BOOLEAN
    BY RuleTypes
  <1>2. Inner \notin BOOLEAN
    BY BlackListAssumption
  <1>3. \A i \in cov : /\ i \in DOMAIN rules /\ rules[i].kept /\ Begins(rules[i].prefix, a)
                       /\ rules[i].prefix \in s /\ Entry(t, rules[i].prefix) = rules[i].allow
    <2> SUFFICES ASSUME NEW i \in cov
                 PROVE  /\ i \in DOMAIN rules /\ rules[i].kept /\ Begins(rules[i].prefix, a)
                        /\ rules[i].prefix \in s /\ Entry(t, rules[i].prefix) = rules[i].allow
      OBVIOUS
    <2>1. i \in DOMAIN rules /\ rules[i].kept /\ Begins(rules[i].prefix, a)
      BY DEF Covering
    <2>2. Entry(t, rules[i].prefix) = rules[i].allow
      BY <1>1, <2>1 DEF ByRules
    <2>3. Entry(t, rules[i].prefix) # Inner
      BY <1>1, <1>2, <2>1, <2>2
    <2> QED BY <1>1, <2>1, <2>2, <2>3 DEF Covers
  <1>4. \A p \in s : \E i \in cov : rules[i].prefix = p
    BY DEF Covers, Covering, ByRules
  <1>5. CASE s = {}
    <2>1. cov = {}
      BY <1>3, <1>5
    <2>2. RuledAllow(a) = default
      BY <2>1 DEF RuledAllow
    <2>3. longest_match(t, a) = Inner
      BY <1>5, LongestMatch
    <2> QED BY <2>2, <2>3 DEF find
  <1>6. CASE s # {}
    <2>1. l \in s /\ \A b \in s : Len(b) <= Len(l)
      <3>1. s \subseteq Keys
        BY DEF Covers
      <3> HIDE DEF s
      <3> QED BY <1>6, <3>1, LongestIs
    <2> HIDE DEF l, s, cov
    <2>2. PICK i \in cov : rules[i].prefix = l
      BY <1>4, <2>1
    <2>3. ASSUME NEW j \in cov PROVE i <= j
      <3>1. i \in DOMAIN rules /\ j \in DOMAIN rules /\ i \in Nat /\ j \in Nat
        BY <1>1, <1>3
      <3> SUFFICES ASSUME j < i PROVE FALSE
        BY <3>1
      <3>2. ~Begins(rules[j].prefix, rules[i].prefix)
        BY <1>3, <3>1 DEF RulesOK
      <3>3. Len(rules[j].prefix) <= Len(rules[i].prefix)
        BY <1>3, <2>1, <2>2
      <3>4. /\ rules[i].prefix \in Keys /\ rules[j].prefix \in Keys
            /\ Begins(rules[i].prefix, a) /\ Begins(rules[j].prefix, a)
        BY <1>1, <1>3
      <3> QED BY <3>2, <3>3, <3>4, CoverOrder
    <2>4. \A k \in cov : (\A j \in cov : k <= j) => k = i
      <3>1. \A k \in cov : k \in Nat
        BY <1>1, <1>3
      <3> QED BY <2>2, <2>3, <3>1
    <2>5. (CHOOSE k \in cov : \A j \in cov : k <= j) = i
      BY <2>2, <2>3, <2>4
    <2>6. RuledAllow(a) = rules[i].allow
      BY <2>2, <2>5 DEF RuledAllow, cov
    <2>7. longest_match(t, a) = Entry(t, l)
      BY <1>6, LongestMatch DEF s, l
    <2>8. Entry(t, l) = rules[i].allow /\ Entry(t, l) # Inner
      BY <1>1, <1>2, <1>3, <2>2
    <2>9. find(t, a).allow = Entry(t, l)
      BY <2>7, <2>8 DEF find
    <2> QED BY <2>6, <2>8, <2>9
  <1> QED BY <1>5, <1>6

LEMMA RuledType == ASSUME RulesOK, NEW a PROVE RuledAllow(a) \in BOOLEAN
  <1> DEFINE cov == Covering(a)
  <1>1. \A i \in DOMAIN rules : rules[i].allow \in BOOLEAN /\ i \in Nat
    BY RuleTypes
  <1>2. CASE cov = {}
    BY <1>2 DEF RuledAllow, RulesOK
  <1>3. CASE cov # {}
    <2>1. cov \subseteq DOMAIN rules
      BY DEF Covering
    <2>2. Least(cov) \in cov
      BY <1>1, <1>3, <2>1, LeastIs
    <2>3. RuledAllow(a) = rules[Least(cov)].allow
      BY <1>3 DEF RuledAllow, Least
    <2> QED BY <1>1, <2>1, <2>2, <2>3
  <1> QED BY <1>2, <1>3

LEMMA InvFirstMatch == MatchInv => FirstMatch
  <1> SUFFICES ASSUME MatchInv, NEW a \in Addresses, ~Tripped(a)
               PROVE  find(table, a).allow = RuledAllow(a)
    BY DEF FirstMatch, MatchInv, RulesOK
  <1>1. a \in Keys /\ Len(a) = AddrLen
    BY AddressIs
  <1>2. table \in Trees /\ RulesOK
    BY DEF MatchInv, TableOK
  <1>3. ASSUME NEW p \in Keys, Begins(p, a) PROVE ByRules(table, p)
    <2>1. Tripped(p) => p = a
      BY <1>1, <1>3, AddressIs, CoverOrder
    <2> QED BY <2>1 DEF MatchInv, TableOK
  <1> QED BY <1>1, <1>2, <1>3, RulesDecide

\* Induction up to n.
LEMMA UpTo ==
    ASSUME NEW n \in Nat, NEW P, 0 \in P, \A k \in 1 .. n : k - 1 \in P => k \in P
    PROVE  \A k \in 0 .. n : k \in P
  <1> DEFINE bad == {k \in 0 .. n : k \notin P}
  <1> SUFFICES ASSUME bad # {} PROVE FALSE
    OBVIOUS
  <1>1. Least(bad) \in bad /\ \A y \in bad : Least(bad) <= y
    <2>1. bad \subseteq Nat
      OBVIOUS
    <2> HIDE DEF bad
    <2> QED BY <2>1, LeastIs
  <1>2. PICK x \in bad : \A y \in bad : x <= y
    BY <1>1
  <1>3. x \in 1 .. n
    OBVIOUS
  <1>4. x - 1 \in 0 .. n /\ ~(x <= x - 1)
    BY <1>3
  <1>5. x - 1 \in P
    BY <1>2, <1>4
  <1> QED BY <1>3, <1>5

\* The tables of the loop of unban, one for each ban that is over.
Erasures(f, n, t) == f[0] = t /\ \A k \in 1 .. n : f[k] = erase(f[k - 1], banned[k].addr)

LEMMA ErasuresExist ==
    ASSUME NEW n \in Nat, NEW t
    PROVE  \E f : f = [k \in 0 .. n |-> f[k]] /\ Erasures(f, n, t)
  <1> DEFINE is(f, m) == f = [k \in 0 .. m |-> f[k]] /\ Erasures(f, m, t)
             P == {m \in 0 .. n : \E f : is(f, m)}
  <1>1. 0 \in P
    <2>1. is([k \in 0 .. 0 |-> t], 0)
      BY DEF Erasures
    <2>2. 0 \in 0 .. n
      OBVIOUS
    <2> HIDE DEF is
    <2> QED BY <2>1, <2>2
  <1>2. ASSUME NEW m \in 1 .. n, m - 1 \in P PROVE m \in P
    <2>1. PICK f : is(f, m - 1)
      BY <1>2
    <2> DEFINE g == [k \in 0 .. m |-> IF k = m THEN erase(f[m - 1], banned[m].addr) ELSE f[k]]
    <2>2. g[0] = t
      BY <2>1 DEF Erasures
    <2>3. ASSUME NEW k \in 1 .. m PROVE g[k] = erase(g[k - 1], banned[k].addr)
      <3>1. k - 1 \in 0 .. m /\ k - 1 # m /\ k \in 0 .. m
        OBVIOUS
      <3>2. g[k - 1] = f[k - 1]
        BY <3>1
      <3>3. CASE k = m
        BY <3>1, <3>2, <3>3
      <3>4. CASE k # m
        <4>1. k \in 1 .. (m - 1)
          BY <3>4
        <4> QED BY <2>1, <3>1, <3>2, <3>4, <4>1 DEF Erasures
      <3> QED BY <3>3, <3>4
    <2>4. g = [k \in 0 .. m |-> g[k]]
      OBVIOUS
    <2>5. is(g, m)
      <3> HIDE DEF g
      <3> QED BY <2>2, <2>3, <2>4 DEF Erasures
    <2>6. m \in 0 .. n
      OBVIOUS
    <2> HIDE DEF is, g
    <2> QED BY <2>5, <2>6
  <1>3. n \in P
    <2>1. n \in 0 .. n
      OBVIOUS
    <2> HIDE DEF P
    <2> QED BY <1>1, <1>2, <2>1, UpTo
  <1> QED BY <1>3

LEMMA EraseFirstIs ==
    ASSUME NEW n \in Nat, NEW t
    PROVE  \E f : Erasures(f, n, t) /\ EraseFirst(t, n) = f[n]
  <1> DEFINE Eq(g) == g = [i \in 0 .. n |-> IF i = 0 THEN t ELSE erase(g[i - 1], banned[i].addr)]
             e == CHOOSE g : Eq(g)
  <1>1. PICK f : f = [k \in 0 .. n |-> f[k]] /\ Erasures(f, n, t)
    BY ErasuresExist
  <1>2. Eq(f)
    <2>1. \A k \in 0 .. n : f[k] = IF k = 0 THEN t ELSE erase(f[k - 1], banned[k].addr)
      <3> SUFFICES ASSUME NEW k \in 0 .. n
                   PROVE  f[k] = IF k = 0 THEN t ELSE erase(f[k - 1], banned[k].addr)
        OBVIOUS
      <3>1. k = 0 \/ k \in 1 .. n
        OBVIOUS
      <3> QED BY <1>1, <3>1 DEF Erasures
    <2> QED BY <1>1, <2>1
  <1>3. Eq(e)
    <2> HIDE DEF Eq
    <2> QED BY <1>2
  <1>4. EraseFirst(t, n) = e[n]
    BY DEF EraseFirst
  <1> HIDE DEF e
  <1>5. e[0] = t
    BY <1>3
  <1>6. \A k \in 1 .. n : e[k] = erase(e[k - 1], banned[k].addr)
    BY <1>3
  <1>7. Erasures(e, n, t)
    BY <1>5, <1>6 DEF Erasures
  <1> QED BY <1>4, <1>7

\* The first n bans have no entry any more, and nothing else changed.
Lifted(t, u, n) ==
    /\ u \in Trees
    /\ \A a : Entry(u, a) = IF \E j \in 1 .. n : banned[j].addr = a THEN Inner ELSE Entry(t, a)

LEMMA EraseFirstEntries ==
    ASSUME NEW n \in Nat, NEW t \in Trees,
           \A j \in 1 .. n : banned[j].addr \in Keys /\ Len(banned[j].addr) = AddrLen
    PROVE  Lifted(t, EraseFirst(t, n), n)
  <1>1. PICK f : Erasures(f, n, t) /\ EraseFirst(t, n) = f[n]
    BY EraseFirstIs
  <1> DEFINE P == {k \in 0 .. n : Lifted(t, f[k], k)}
  <1>2. 0 \in P
    <2>1. f[0] = t
      BY <1>1 DEF Erasures
    <2> QED BY <2>1 DEF Lifted
  <1>3. ASSUME NEW k \in 1 .. n, k - 1 \in P PROVE k \in P
    <2>1. Lifted(t, f[k - 1], k - 1) /\ f[k] = erase(f[k - 1], banned[k].addr)
      BY <1>1, <1>3 DEF Erasures
    <2>2. f[k - 1] \in Trees
      BY <2>1 DEF Lifted
    <2>3. Changed(f[k - 1], f[k], banned[k].addr, Inner)
      BY <2>1, <2>2, EraseEntry
    <2>4. \A j \in 1 .. k : j \in 1 .. (k - 1) \/ j = k
      OBVIOUS
    <2>5. k \in 1 .. k /\ \A j \in 1 .. (k - 1) : j \in 1 .. k
      OBVIOUS
    <2>6. \A a : (\E j \in 1 .. k : banned[j].addr = a) <=>
                   (banned[k].addr = a \/ \E j \in 1 .. (k - 1) : banned[j].addr = a)
      BY <2>4, <2>5
    <2>7. Lifted(t, f[k], k)
      BY <2>1, <2>3, <2>6 DEF Lifted, Changed
    <2> QED BY <2>7
  <1>4. n \in P
    <2>1. n \in 0 .. n
      OBVIOUS
    <2> HIDE DEF P
    <2> QED BY <1>2, <1>3, <2>1, UpTo
  <1> QED BY <1>1, <1>4

LEMMA QueueTypes ==
    ASSUME NEW b, QueueOK(b)
    PROVE  /\ Len(b) \in Nat /\ DOMAIN b = 1 .. Len(b)
           /\ \A j \in DOMAIN b : b[j] \in Bans
           /\ \A j \in DOMAIN b : b[j].until \in Nat /\ b[j].addr \in Clients
  <1>1. b \in Seq(Bans)
    BY DEF QueueOK
  <1>2. Len(b) \in Nat /\ DOMAIN b = 1 .. Len(b)
    BY <1>1
  <1>3. \A j \in DOMAIN b : b[j] \in Bans
    BY <1>1
  <1>4. \A x \in Bans : x.until \in Nat /\ x.addr \in Clients
    BY DEF Bans
  <1> QED BY <1>2, <1>3, <1>4

\* unban takes the first n bans: these are over and no other is.
LEMMA UnbanTakes ==
    ASSUME MatchInv, NEW t
    PROVE  \E n \in 0 .. Len(banned) :
              /\ Unban(t) = [table |-> EraseFirst(t, n), banned |-> SubSeq(banned, n + 1, Len(banned))]
              /\ \A j \in DOMAIN banned : j <= n <=> banned[j].until <= now
  <1> DEFINE over == {i \in 0 .. Len(banned) : \A j \in 1 .. i : banned[j].until <= now}
             n == CHOOSE i \in over : \A j \in over : j <= i
  <1>1. /\ Len(banned) \in Nat /\ DOMAIN banned = 1 .. Len(banned)
        /\ \A j \in DOMAIN banned : banned[j].until \in Nat
        /\ \A i, j \in DOMAIN banned : i < j => banned[i].until <= banned[j].until
        /\ now \in Nat
    <2>1. QueueOK(banned) /\ now \in Nat
      BY DEF MatchInv, TrippedOK
    <2>2. \A i, j \in DOMAIN banned : i < j => banned[i].until <= banned[j].until
      BY <2>1 DEF QueueOK
    <2> QED BY <2>1, <2>2, QueueTypes
  <1>2. 0 \in over /\ over \subseteq 0 .. Len(banned)
    BY <1>1
  <1>3. n \in over /\ \A j \in over : j <= n
    <2>1. \E i \in over : \A j \in over : j <= i
      <3> HIDE DEF over
      <3> QED BY <1>1, <1>2, GreatestExists
    <2> HIDE DEF over
    <2> QED BY <2>1
  <1>4. Unban(t) = [table |-> EraseFirst(t, n), banned |-> SubSeq(banned, n + 1, Len(banned))]
    BY DEF Unban
  <1> HIDE DEF n
  <1>5. n \in 0 .. Len(banned) /\ n \in Nat /\ \A j \in 1 .. n : banned[j].until <= now
    BY <1>1, <1>3
  <1>6. ASSUME NEW j \in DOMAIN banned, n < j PROVE ~(banned[j].until <= now)
    <2>1. n + 1 \in 1 .. Len(banned)
      BY <1>1, <1>5, <1>6
    <2>2. ~(banned[n + 1].until <= now)
      <3> SUFFICES ASSUME banned[n + 1].until <= now PROVE FALSE
        OBVIOUS
      <3>1. \A k \in 1 .. (n + 1) : k \in 1 .. n \/ k = n + 1
        BY <1>5
      <3>2. \A k \in 1 .. (n + 1) : banned[k].until <= now
        BY <1>5, <3>1
      <3>3. n + 1 \in over
        BY <1>1, <2>1, <3>2
      <3>4. n + 1 <= n
        BY <1>3, <3>3
      <3> QED BY <1>5, <3>4
    <2>3. banned[n + 1].until <= banned[j].until
      BY <1>1, <1>5, <1>6, <2>1
    <2>4. banned[n + 1].until \in Nat /\ banned[j].until \in Nat
      BY <1>1, <2>1
    <2> QED BY <1>1, <2>2, <2>3, <2>4
  <1>7. \A j \in DOMAIN banned : j <= n <=> banned[j].until <= now
    <2> SUFFICES ASSUME NEW j \in DOMAIN banned PROVE j <= n <=> banned[j].until <= now
      OBVIOUS
    <2>1. j \in Nat /\ 1 <= j
      BY <1>1
    <2>2. j <= n => j \in 1 .. n
      BY <1>5, <2>1
    <2>3. j <= n \/ n < j
      BY <1>5, <2>1
    <2> QED BY <1>5, <1>6, <2>2, <2>3
  <1> QED BY <1>4, <1>5, <1>7

\* After unban an address without a rule of its own has an entry exactly while its ban runs.
Exact(t) ==
    \A a \in Clients : Tripped(a) /\ ~OwnRule(a) =>
        Entry(t, a) = IF BanRuns(a) THEN FALSE ELSE Inner

LEMMA BanTimes ==
    ASSUME MatchInv
    PROVE  /\ now \in Nat /\ banSec \in Nat /\ BanTime \in Nat /\ Never = -1
           /\ \A a : Tripped(a) => a \in Clients /\ tripped[a] \in Nat
  <1>1. now \in Nat /\ banSec \in Nat /\ Second \in Nat
    BY BlackListAssumption DEF MatchInv, TrippedOK
  <1>2. \A x, y \in Nat : x * y \in Nat
    OBVIOUS
  <1>3. BanTime \in Nat
    BY <1>1, <1>2 DEF BanTime
  <1>4. tripped \in [Clients -> Nat \cup {Never}]
    BY DEF MatchInv, TrippedOK
  <1> QED BY <1>1, <1>3, <1>4 DEF Tripped, Never

LEMMA RestIs ==
    ASSUME NEW S, NEW s \in Seq(S), NEW n \in Nat, n <= Len(s)
    PROVE  /\ SubSeq(s, n + 1, Len(s)) \in Seq(S)
           /\ Len(SubSeq(s, n + 1, Len(s))) = Len(s) - n
           /\ \A k \in 1 .. (Len(s) - n) : SubSeq(s, n + 1, Len(s))[k] = s[n + k]
  <1>1. Len(s) \in Nat
    OBVIOUS
  <1>2. SubSeq(s, n + 1, Len(s)) \in Seq(S)
    BY <1>1
  <1>3. Len(SubSeq(s, n + 1, Len(s))) = Len(s) - n
    BY <1>1
  <1>4. \A k \in 1 .. (Len(s) - n) : SubSeq(s, n + 1, Len(s))[k] = s[n + k]
    BY <1>1
  <1> QED BY <1>2, <1>3, <1>4

\* The bans that are left when the first n are taken.
Rest(b, n) ==
    /\ \A k \in DOMAIN b : n + k \in DOMAIN banned /\ n < n + k /\ b[k] = banned[n + k]
    /\ \A j \in DOMAIN banned : n < j => j - n \in DOMAIN b /\ b[j - n] = banned[j]

LEMMA RestOfQueue ==
    ASSUME QueueOK(banned), NEW n \in 0 .. Len(banned)
    PROVE  /\ QueueOK(SubSeq(banned, n + 1, Len(banned)))
           /\ Rest(SubSeq(banned, n + 1, Len(banned)), n)
  <1> DEFINE b == SubSeq(banned, n + 1, Len(banned))
  <1>1. /\ Len(banned) \in Nat /\ DOMAIN banned = 1 .. Len(banned) /\ n \in Nat /\ n <= Len(banned)
        /\ \A j \in DOMAIN banned : banned[j].until \in Nat /\ banned[j].addr \in Clients
        /\ banned \in Seq(Bans)
    <2>1. Len(banned) \in Nat
      BY QueueTypes
    <2>2. banned \in Seq(Bans)
      BY DEF QueueOK
    <2> QED BY <2>1, <2>2, QueueTypes
  <1>2. /\ b \in Seq(Bans) /\ Len(b) = Len(banned) - n
        /\ \A k \in 1 .. (Len(banned) - n) : b[k] = banned[n + k]
    BY <1>1, RestIs
  <1> HIDE DEF b
  <1>3. DOMAIN b = 1 .. Len(b) /\ \A k \in 1 .. Len(b) : b[k] = banned[n + k]
    BY <1>2
  <1>4. ASSUME NEW k \in DOMAIN b
        PROVE  n + k \in DOMAIN banned /\ n < n + k /\ b[k] = banned[n + k] /\ k \in Nat
    <2>1. k \in 1 .. Len(b) /\ k \in Nat /\ 1 <= k /\ k <= Len(banned) - n
      BY <1>1, <1>2, <1>3, <1>4
    <2>2. n + k \in DOMAIN banned /\ n < n + k
      BY <1>1, <2>1
    <2> QED BY <1>3, <2>1, <2>2
  <1>5. ASSUME NEW j \in DOMAIN banned, n < j PROVE j - n \in DOMAIN b /\ b[j - n] = banned[j]
    <2>1. j - n \in 1 .. (Len(banned) - n) /\ n + (j - n) = j
      BY <1>1, <1>5
    <2> QED BY <1>2, <1>3, <2>1
  <1>6. \A i, j \in DOMAIN b : i < j => b[i].until <= b[j].until
    <2> SUFFICES ASSUME NEW i \in DOMAIN b, NEW j \in DOMAIN b, i < j
                 PROVE  b[i].until <= b[j].until
      OBVIOUS
    <2>1. n + i < n + j /\ n + i \in DOMAIN banned /\ n + j \in DOMAIN banned
      BY <1>1, <1>4
    <2>2. banned[n + i].until <= banned[n + j].until
      BY <2>1 DEF QueueOK
    <2> QED BY <1>4, <2>2
  <1>7. \A k \in DOMAIN b : b[k].until <= now + BanTime /\ Tripped(b[k].addr)
    BY <1>4 DEF QueueOK
  <1>8. \A k \in DOMAIN b : ~OwnRule(b[k].addr) => b[k].until = tripped[b[k].addr] + BanTime
    BY <1>4 DEF QueueOK
  <1>9. QueueOK(b)
    BY <1>2, <1>6, <1>7, <1>8 DEF QueueOK
  <1>10. Rest(b, n)
    BY <1>4, <1>5 DEF Rest
  <1> QED BY <1>9, <1>10 DEF b

LEMMA AfterUnban ==
    ASSUME MatchInv
    PROVE  /\ TableOK(Unbanned.table) /\ QueueOK(Unbanned.banned)
           /\ BansOK(Unbanned.table, Unbanned.banned) /\ Exact(Unbanned.table)
  <1>0. /\ TableOK(table) /\ QueueOK(banned) /\ BansOK(table, banned)
        /\ now \in Nat /\ banSec \in Nat /\ BanTime \in Nat
        /\ \A a : Tripped(a) => a \in Clients /\ tripped[a] \in Nat
    BY BanTimes DEF MatchInv
  <1>1. CASE RequestsPerSec = 0 \/ banSec = 0
    <2>1. Unbanned.table = table /\ Unbanned.banned = banned
      BY <1>1 DEF Unbanned
    <2>2. Exact(table)
      <3>1. CASE RequestsPerSec = 0
        BY <3>1 DEF MatchInv, TrippedOK, Exact
      <3>2. CASE banSec = 0
        BY <1>0, <3>2 DEF Exact, BanRuns, BansOK
      <3> QED BY <1>1, <3>1, <3>2
    <2> QED BY <1>0, <2>1, <2>2
  <1>2. CASE ~(RequestsPerSec = 0 \/ banSec = 0)
    <2>1. PICK n \in 0 .. Len(banned) :
              /\ Unban(table) = [table |-> EraseFirst(table, n),
                                 banned |-> SubSeq(banned, n + 1, Len(banned))]
              /\ \A j \in DOMAIN banned : j <= n <=> banned[j].until <= now
      BY UnbanTakes
    <2>2. PICK t, b : t = EraseFirst(table, n) /\ b = SubSeq(banned, n + 1, Len(banned))
      OBVIOUS
    <2>3. Unbanned.table = t /\ Unbanned.banned = b
      BY <1>2, <2>1, <2>2 DEF Unbanned
    <2>4. /\ n \in Nat /\ Len(banned) \in Nat /\ n <= Len(banned) /\ DOMAIN banned = 1 .. Len(banned)
          /\ \A j \in 1 .. n : j \in DOMAIN banned /\ j <= n
          /\ \A j \in DOMAIN banned : j <= n => j \in 1 .. n
          /\ \A j \in DOMAIN banned : j <= n \/ n < j
          /\ \A k \in Nat : n < k => ~(k <= n)
      <3>1. Len(banned) \in Nat /\ DOMAIN banned = 1 .. Len(banned)
        BY <1>0, QueueTypes
      <3> QED BY <3>1
    <2>5. Lifted(table, t, n)
      <3>1. \A j \in 1 .. n : banned[j].addr \in Keys /\ Len(banned[j].addr) = AddrLen
        BY <1>0, <2>4, QueueTypes, AddressIs
      <3>2. table \in Trees
        BY <1>0 DEF TableOK
      <3> QED BY <2>2, <2>4, <3>1, <3>2, EraseFirstEntries
    <2>6. TableOK(t)
      <3> SUFFICES ASSUME NEW p \in Keys, ~Tripped(p) PROVE ByRules(t, p)
        BY <2>5 DEF TableOK, Lifted
      <3>1. \A j \in 1 .. n : banned[j].addr # p
        BY <1>0, <2>4 DEF QueueOK
      <3>2. Entry(t, p) = Entry(table, p)
        BY <2>5, <3>1 DEF Lifted
      <3>3. ByRules(table, p)
        BY <1>0 DEF TableOK
      <3> QED BY <3>2, <3>3 DEF ByRules
    <2>7. /\ QueueOK(b)
          /\ \A k \in DOMAIN b : n + k \in DOMAIN banned /\ n < n + k /\ b[k] = banned[n + k]
          /\ \A j \in DOMAIN banned : n < j => j - n \in DOMAIN b /\ b[j - n] = banned[j]
      <3>1. QueueOK(b) /\ Rest(b, n)
        BY <1>0, <2>2, RestOfQueue
      <3> QED BY <3>1 DEF Rest
    <2>8. ASSUME NEW a \in Clients, Tripped(a), ~OwnRule(a)
          PROVE  /\ IF IsBanned(b, a) THEN Entry(t, a) = FALSE
                    ELSE Entry(t, a) = Inner /\ tripped[a] + BanTime <= now
                 /\ Entry(t, a) = IF BanRuns(a) THEN FALSE ELSE Inner
      <3>0. tripped[a] \in Nat /\ tripped[a] + BanTime \in Nat
        BY <1>0, <2>8
      <3>1. BanRuns(a) <=> ~(tripped[a] + BanTime <= now)
        <4>1. BanRuns(a) <=> now < tripped[a] + BanTime
          BY <1>2, <2>8 DEF BanRuns, BanTime
        <4> QED BY <1>0, <3>0, <4>1
      <3>2. \A j \in DOMAIN banned : banned[j].addr = a => (j <= n <=> tripped[a] + BanTime <= now)
        BY <1>0, <2>1, <2>8 DEF QueueOK
      <3>3. CASE IsBanned(banned, a) /\ tripped[a] + BanTime <= now
        <4>1. PICK j \in DOMAIN banned : banned[j].addr = a
          BY <3>3 DEF IsBanned
        <4>2. j \in 1 .. n
          BY <2>4, <3>2, <3>3, <4>1
        <4>3. Entry(t, a) = Inner
          BY <2>5, <4>1, <4>2 DEF Lifted
        <4>4. ~IsBanned(b, a)
          <5> SUFFICES ASSUME NEW k \in DOMAIN b, b[k].addr = a PROVE FALSE
            BY DEF IsBanned
          <5>1. n + k \in DOMAIN banned /\ n < n + k /\ banned[n + k].addr = a
            BY <2>7
          <5>2. n + k <= n
            BY <3>2, <3>3, <5>1
          <5> QED BY <2>4, <5>1, <5>2
        <4> QED BY <3>1, <3>3, <4>3, <4>4
      <3>4. CASE IsBanned(banned, a) /\ ~(tripped[a] + BanTime <= now)
        <4>1. PICK j \in DOMAIN banned : banned[j].addr = a
          BY <3>4 DEF IsBanned
        <4>2. n < j
          BY <2>4, <3>2, <3>4, <4>1
        <4>3. IsBanned(b, a)
          BY <2>7, <4>1, <4>2 DEF IsBanned
        <4>4. \A k \in 1 .. n : banned[k].addr # a
          BY <2>4, <3>2, <3>4
        <4>5. Entry(t, a) = Entry(table, a)
          BY <2>5, <4>4 DEF Lifted
        <4>6. Entry(table, a) = FALSE
          BY <1>0, <2>8, <3>4 DEF BansOK
        <4> QED BY <3>1, <3>4, <4>3, <4>5, <4>6
      <3>5. CASE ~IsBanned(banned, a)
        <4>1. Entry(table, a) = Inner /\ tripped[a] + BanTime <= now
          BY <1>0, <1>2, <2>8, <3>5 DEF BansOK
        <4>2. Entry(t, a) = Inner
          BY <2>5, <4>1 DEF Lifted
        <4>3. ~IsBanned(b, a)
          BY <2>7, <3>5 DEF IsBanned
        <4> QED BY <3>1, <4>1, <4>2, <4>3
      <3> QED BY <3>3, <3>4, <3>5
    <2>9. BansOK(t, b) /\ Exact(t)
      BY <1>2, <2>8 DEF BansOK, Exact
    <2> QED BY <2>3, <2>6, <2>7, <2>9
  <1> QED BY <1>1, <1>2

LEMMA InvBanExact == MatchInv => BanExact
  <1> SUFFICES ASSUME MatchInv, NEW a \in Clients, Tripped(a), ~OwnRule(a)
               PROVE  find(Unbanned.table, a).allow = (RuledAllow(a) /\ ~BanRuns(a))
    BY DEF BanExact
  <1>1. PICK t : t = Unbanned.table
    OBVIOUS
  <1>2. /\ t \in Trees /\ TableOK(t) /\ RulesOK
        /\ Entry(t, a) = IF BanRuns(a) THEN FALSE ELSE Inner
    BY <1>1, AfterUnban DEF TableOK, Exact, MatchInv
  <1>3. a \in Keys /\ Len(a) = AddrLen /\ Inner \notin BOOLEAN
    BY AddressIs, BlackListAssumption
  <1>4. CASE BanRuns(a)
    <2>1. Entry(t, a) = FALSE /\ Entry(t, a) # Inner
      BY <1>2, <1>3, <1>4
    <2>2. find(t, a).allow = FALSE
      BY <1>2, <1>3, <2>1, OwnEntry
    <2> QED BY <1>1, <1>4, <2>2
  <1>5. CASE ~BanRuns(a)
    <2>1. Entry(t, a) = Inner
      BY <1>2, <1>5
    <2>2. ASSUME NEW p \in Keys, Begins(p, a) PROVE ByRules(t, p)
      <3>1. CASE p = a
        BY <2>1, <3>1 DEF ByRules, OwnRule
      <3>2. CASE p # a
        <4>1. ~Tripped(p)
          BY <1>3, <2>2, <3>2, AddressIs, CoverOrder
        <4> QED BY <1>2, <4>1 DEF TableOK
      <3> QED BY <3>1, <3>2
    <2>3. find(t, a).allow = RuledAllow(a)
      BY <1>2, <1>3, <2>2, RulesDecide
    <2>4. RuledAllow(a) \in BOOLEAN
      BY <1>2, RuledType
    <2>5. (RuledAllow(a) /\ ~BanRuns(a)) = RuledAllow(a)
      BY <1>5, <2>4, Zenon
    <2> QED BY <1>1, <2>3, <2>5, Zenon
  <1> QED BY <1>4, <1>5

LEMMA InitMatchInv == BlackListInit => MatchInv
  <1> SUFFICES ASSUME BlackListInit PROVE MatchInv
    OBVIOUS
  <1>1. /\ rules = <<>> /\ default = TRUE /\ table = NewTree /\ banned = <<>> /\ now = 0
        /\ banSec \in Nat /\ tripped = [a \in Clients |-> Never]
    BY BlackListAssumption DEF BlackListInit
  <1>2. \A a : ~Tripped(a)
    BY <1>1 DEF Tripped
  <1>3. RulesOK
    BY <1>1 DEF RulesOK, SkippedForEarlier
  <1>4. TrippedOK
    BY <1>1, <1>2 DEF TrippedOK
  <1>5. TableOK(table)
    <2>1. NewTree \in [{<<>>} -> Answers] /\ {<<>>} \in SUBSET Keys
      BY EmptyKey DEF NewTree, Answers
    <2>2. NewTree \in Trees
      BY <2>1, TreeFrom
    <2>3. \A p : Entry(NewTree, p) = Inner
      BY DEF Entry, HasLeaf, NewTree
    <2>4. DOMAIN rules = {}
      BY <1>1
    <2> QED BY <1>1, <2>2, <2>3, <2>4 DEF TableOK, ByRules
  <1>6. QueueOK(banned)
    BY <1>1 DEF QueueOK
  <1>7. BansOK(table, banned)
    BY <1>2 DEF BansOK
  <1> QED BY <1>3, <1>4, <1>5, <1>6, <1>7 DEF MatchInv

\* Time passes, the stage changes and the default is read; the table and the bans are as they were
\* or as unban leaves them.
LEMMA SameKept ==
    ASSUME MatchInv, NEW t, NEW b, TableOK(t), QueueOK(b), BansOK(t, b),
           table' = t, banned' = b, UNCHANGED <<banSec, tripped>>,
           \A i \in DOMAIN rules : i \in DOMAIN rules' /\ rules'[i] = rules[i],
           \A i \in DOMAIN rules' : rules'[i].kept => i \in DOMAIN rules,
           RulesOK', now' \in Nat, now <= now',
           stage' = "serving" \/ stage # "serving"
    PROVE  MatchInv'
  <1>1. /\ now \in Nat /\ BanTime \in Nat /\ BanTime' = BanTime
        /\ \A a : Tripped(a) => a \in Clients /\ tripped[a] \in Nat
    BY BanTimes DEF BanTime
  <1>2. \A c : OwnRule(c)' <=> OwnRule(c)
    BY DEF OwnRule
  <1>4. TrippedOK'
    <2>1. TrippedOK
      BY DEF MatchInv
    <2> QED BY <2>1 DEF TrippedOK, Tripped
  <1>5. TableOK(table)'
    <2> SUFFICES ASSUME NEW p \in Keys, ~Tripped(p)' PROVE ByRules(table, p)'
      BY DEF TableOK
    <2>1. ByRules(t, p)
      BY DEF TableOK, Tripped
    <2> QED BY <2>1 DEF ByRules
  <1>6. QueueOK(banned)'
    <2>1. \A i \in DOMAIN b : b[i].until <= now' + BanTime'
      <3>1. \A i \in DOMAIN b : b[i].until \in Nat
        BY QueueTypes
      <3>2. \A i \in DOMAIN b : b[i].until <= now + BanTime
        BY DEF QueueOK
      <3> QED BY <1>1, <3>1, <3>2
    <2> QED BY <1>1, <1>2, <2>1 DEF QueueOK, Tripped
  <1>7. BansOK(table, banned)'
    <2> SUFFICES ASSUME NEW a \in Clients, Tripped(a)', ~OwnRule(a)'
                 PROVE  IF banSec' = 0 \/ IsBanned(banned, a)' THEN Entry(table, a)' = FALSE
                        ELSE Entry(table, a)' = Inner /\ tripped'[a] + BanTime' <= now'
      BY DEF BansOK
    <2>1. Tripped(a) /\ ~OwnRule(a)
      BY <1>2 DEF Tripped
    <2>2. IF banSec = 0 \/ IsBanned(b, a) THEN Entry(t, a) = FALSE
          ELSE Entry(t, a) = Inner /\ tripped[a] + BanTime <= now
      BY <2>1 DEF BansOK
    <2>3. IsBanned(banned, a)' <=> IsBanned(b, a)
      BY DEF IsBanned
    <2>4. Entry(table, a)' = Entry(t, a)
      BY DEF Entry, HasLeaf
    <2>5. tripped[a] + BanTime <= now => tripped'[a] + BanTime' <= now'
      BY <1>1, <2>1
    <2> QED BY <2>2, <2>3, <2>4, <2>5
  <1> QED BY <1>4, <1>5, <1>6, <1>7 DEF MatchInv

LEMMA SameRules ==
    ASSUME MatchInv, NEW t, NEW b, TableOK(t), QueueOK(b), BansOK(t, b),
           table' = t, banned' = b, UNCHANGED <<rules, banSec, tripped>>,
           default' \in BOOLEAN, now' \in Nat, now <= now',
           stage' = "serving" \/ stage # "serving"
    PROVE  MatchInv'
  <1>1. RulesOK'
    BY DEF MatchInv, RulesOK, SkippedForEarlier, Covering
  <1> QED BY <1>1, SameKept

\* One more rule is kept or skipped as SkippedForEarlier says.
LEMMA SkippedAfter ==
    ASSUME SkippedForEarlier, rules \in Seq(Rules), NEW r, rules' = Append(rules, r),
           r.kept <=> Covering(Network(r.prefix)) = {}
    PROVE  SkippedForEarlier'
  <1> DEFINE n == Len(rules)
  <1>1. /\ n \in Nat /\ DOMAIN rules = 1 .. n /\ DOMAIN rules' = 1 .. (n + 1)
        /\ rules'[n + 1] = r /\ \A i \in 1 .. n : rules'[i] = rules[i]
    OBVIOUS
  <1> HIDE DEF n
  <1>2. \A key : Covering(key)' = Covering(key) \cup
                  (IF r.kept /\ Begins(r.prefix, key) THEN {n + 1} ELSE {})
    <2> SUFFICES ASSUME NEW key
                 PROVE  Covering(key)' = Covering(key) \cup
                          (IF r.kept /\ Begins(r.prefix, key) THEN {n + 1} ELSE {})
      OBVIOUS
    <2>1. Covering(key)' = {i \in 1 .. (n + 1) : rules'[i].kept /\ Begins(rules'[i].prefix, key)}
      BY <1>1 DEF Covering
    <2>2. Covering(key) = {i \in 1 .. n : rules[i].kept /\ Begins(rules[i].prefix, key)}
      BY <1>1 DEF Covering
    <2>3. \A i : i \in 1 .. (n + 1) <=> i \in 1 .. n \/ i = n + 1
      BY <1>1
    <2>4. ~(n + 1 \in 1 .. n)
      BY <1>1
    <2>5. ASSUME NEW i PROVE i \in Covering(key)' <=> i \in Covering(key)
                               \/ (i = n + 1 /\ r.kept /\ Begins(r.prefix, key))
      <3>1. CASE i \in 1 .. n
        BY <1>1, <2>1, <2>2, <2>3, <2>4, <3>1
      <3>2. CASE i \notin 1 .. n
        BY <1>1, <2>1, <2>2, <2>3, <3>2
      <3> QED BY <3>1, <3>2
    <2> QED BY <2>5
  <1>3. \A key : Covering(key) \subseteq 1 .. n
    BY <1>1 DEF Covering
  <1>c. \A i \in 1 .. (n + 1) : i \in 1 .. n \/ i = n + 1
    BY <1>1
  <1>4. ASSUME NEW i \in 1 .. (n + 1), NEW p, p = rules'[i].prefix
        PROVE  rules'[i].kept <=> ~\E j \in Covering(Network(p))' : j < i
    <2>1. CASE i \in 1 .. n
      <3>1. rules[i].kept <=> ~\E j \in Covering(Network(p)) : j < i
        BY <1>1, <1>4, <2>1 DEF SkippedForEarlier
      <3>2. ~(n + 1 < i)
        BY <1>1, <2>1
      <3>3. (\E j \in Covering(Network(p))' : j < i) <=> \E j \in Covering(Network(p)) : j < i
        BY <1>2, <3>2
      <3> QED BY <1>1, <2>1, <3>1, <3>3
    <2>2. CASE i = n + 1
      <3>0. p = r.prefix /\ rules'[i] = r
        BY <1>1, <1>4, <2>2
      <3>1. \A j \in Covering(Network(p)) : j < n + 1
        BY <1>1, <1>3
      <3>2. ~(n + 1 < n + 1)
        BY <1>1
      <3>3. (\E j \in Covering(Network(p))' : j < n + 1) <=> Covering(Network(p)) # {}
        BY <1>2, <3>1, <3>2
      <3> QED BY <2>2, <3>0, <3>3
    <2> QED BY <1>c, <2>1, <2>2
  <1>5. ASSUME NEW i \in DOMAIN rules', NEW p, p = rules'[i].prefix
        PROVE  rules'[i].kept <=>
                 ~\E j \in {k \in DOMAIN rules' : rules'[k].kept /\ Begins(rules'[k].prefix, Network(p))} :
                      j < i
    BY <1>1, <1>4, <1>5 DEF Covering
  <1> QED BY <1>5 DEF SkippedForEarlier, Covering

\* A rule is skipped because the table covers its network address.
LEMMA SkipMatchInv ==
    ASSUME MatchInv, NEW p \in Keys, NEW allow \in BOOLEAN, stage = "reading",
           find(table, Network(p)).found, Note(p, allow, FALSE),
           UNCHANGED <<stage, table, default, banned, banSec, now, tripped>>
    PROVE  MatchInv'
  <1> DEFINE net == Network(p)
             r == [prefix |-> p, allow |-> allow, kept |-> FALSE]
  <1>1. rules' = Append(rules, r)
    BY DEF Note
  <1>2. \A a : ~Tripped(a)
    BY DEF MatchInv, TrippedOK, Tripped
  <1>3. /\ table \in Trees /\ RulesOK /\ \A q \in Keys : ByRules(table, q)
        /\ TableOK(table) /\ QueueOK(banned) /\ BansOK(table, banned) /\ now \in Nat /\ now <= now
    BY <1>2 DEF MatchInv, TableOK, TrippedOK
  <1>4. net \in Keys /\ Len(net) = AddrLen
    BY NetworkAddress DEF Network
  <1>5. PICK q \in Keys : Begins(q, net) /\ Entry(table, q) # Inner
    <2>1. Covers(table, net) # {}
      <3> SUFFICES ASSUME Covers(table, net) = {} PROVE FALSE
        OBVIOUS
      <3>1. longest_match(table, net) = Inner
        BY <1>3, <1>4, LongestMatch
      <3> QED BY <3>1 DEF find
    <2> QED BY <2>1 DEF Covers
  <1>6. PICK i \in DOMAIN rules : rules[i].kept /\ rules[i].prefix = q
    BY <1>3, <1>5 DEF ByRules
  <1>7. i \in Covering(net)
    BY <1>5, <1>6 DEF Covering
  <1>8. r \in Rules /\ r.prefix = p /\ ~r.kept
    BY DEF Rules
  <1>9. rules \in Seq(Rules) /\ SkippedForEarlier /\ default \in BOOLEAN
    BY <1>3 DEF RulesOK
  <1> HIDE DEF r
  <1>10. SkippedForEarlier'
    BY <1>1, <1>7, <1>8, <1>9, SkippedAfter
  <1>11. /\ rules' \in Seq(Rules) /\ DOMAIN rules' = 1 .. (Len(rules) + 1)
         /\ DOMAIN rules = 1 .. Len(rules) /\ Len(rules) \in Nat /\ rules'[Len(rules) + 1] = r
         /\ \A k \in 1 .. Len(rules) : rules'[k] = rules[k]
    BY <1>1, <1>8, <1>9
  <1>12. /\ \A k \in DOMAIN rules : k \in DOMAIN rules' /\ rules'[k] = rules[k]
         /\ \A k \in DOMAIN rules' : rules'[k].kept => k \in DOMAIN rules
    BY <1>8, <1>11
  <1>13. \A k, j \in DOMAIN rules' :
            rules'[k].kept /\ rules'[j].kept /\ k < j => ~Begins(rules'[k].prefix, rules'[j].prefix)
    BY <1>3, <1>12 DEF RulesOK
  <1>14. RulesOK'
    BY <1>9, <1>10, <1>11, <1>13 DEF RulesOK
  <1> QED BY <1>3, <1>12, <1>14, SameKept

\* A rule goes in behind rules that do not cover its network address.
LEMMA EnterMatchInv ==
    ASSUME MatchInv, NEW p \in Keys, NEW allow \in BOOLEAN, stage = "reading",
           ~find(table, Network(p)).found, ~PastEnd(table, p), Enter(p, allow),
           UNCHANGED <<default, banned, banSec, now, tripped>>
    PROVE  MatchInv'
  <1> DEFINE net == Network(p)
             r == [prefix |-> p, allow |-> allow, kept |-> TRUE]
  <1>1. /\ rules' = Append(rules, r) /\ table' = insert(table, p, allow) /\ stage' = "reading"
    BY DEF Enter, Note
  <1>2. \A a \in Clients : ~Tripped(a)
    BY DEF MatchInv, TrippedOK
  <1>3. (\A a : ~Tripped(a)) /\ (\A a : ~Tripped(a)')
    BY <1>2 DEF Tripped
  <1>4. table \in Trees /\ RulesOK /\ \A q \in Keys : ByRules(table, q)
    BY <1>3 DEF MatchInv, TableOK
  <1>5. Inner \notin BOOLEAN
    BY BlackListAssumption
  <1>6. net \in Keys /\ Len(net) = AddrLen /\ Begins(p, net)
    BY NetworkAddress DEF Network
  <1>7. Covers(table, net) = {}
    <2> SUFFICES ASSUME Covers(table, net) # {} PROVE FALSE
      OBVIOUS
    <2>1. longest_match(table, net) = Entry(table, Longest(Covers(table, net)))
      BY <1>4, <1>6, LongestMatch
    <2>2. Longest(Covers(table, net)) \in Covers(table, net)
      <3>1. Covers(table, net) \subseteq Keys
        BY DEF Covers
      <3> QED BY <3>1, LongestIs
    <2>3. Entry(table, Longest(Covers(table, net))) # Inner
      BY <2>2 DEF Covers
    <2> QED BY <2>1, <2>3 DEF find
  <1>8. /\ Len(rules) \in Nat /\ DOMAIN rules = 1 .. Len(rules)
        /\ \A i \in DOMAIN rules : rules[i].prefix \in Keys /\ rules[i].allow \in BOOLEAN
        /\ rules \in Seq(Rules) /\ \A i \in DOMAIN rules : rules[i].kept \in BOOLEAN
    BY <1>4, RuleTypes DEF RulesOK
  <1>a. \A i \in DOMAIN rules : rules[i].kept => ~Begins(rules[i].prefix, net)
    <2> SUFFICES ASSUME NEW i \in DOMAIN rules, rules[i].kept, Begins(rules[i].prefix, net)
                 PROVE  FALSE
      OBVIOUS
    <2>1. rules[i].prefix \in Keys /\ rules[i].allow \in BOOLEAN
      BY <1>8
    <2>4. Entry(table, rules[i].prefix) = rules[i].allow
      BY <1>4, <2>1 DEF ByRules
    <2>5. Entry(table, rules[i].prefix) # Inner
      BY <1>5, <2>1, <2>4
    <2>6. rules[i].prefix \in Covers(table, net)
      BY <2>1, <2>5 DEF Covers
    <2> QED BY <1>7, <2>6
  <1>9. \A i \in DOMAIN rules : rules[i].kept => ~Begins(rules[i].prefix, p)
    <2> SUFFICES ASSUME NEW i \in DOMAIN rules, rules[i].kept, Begins(rules[i].prefix, p)
                 PROVE  FALSE
      OBVIOUS
    <2>2. Len(rules[i].prefix) \in Nat /\ Len(p) \in Nat /\ Len(net) \in Nat
      BY <1>6, <1>8, KeyIs
    <2>3. Begins(rules[i].prefix, net)
      <3> HIDE DEF net
      <3> QED BY <1>6, <2>2 DEF Begins
    <2> QED BY <1>a, <2>3
  <1>b. SkippedForEarlier /\ (rules' = Append(rules, r) => SkippedForEarlier')
    <2>1. SkippedForEarlier
      BY <1>4 DEF RulesOK
    <2>2. ASSUME rules' = Append(rules, r) PROVE SkippedForEarlier'
      BY <1>8, <1>a, <2>1, <2>2, SkippedAfter DEF Covering
    <2> QED BY <2>1, <2>2
  <1> HIDE DEF net
  <1>10. Entry(table, p) = Inner
    BY <1>6, <1>7 DEF Covers
  <1>11. Changed(table, table', p, allow)
    BY <1>1, <1>4, <1>10, InsertEntry
  <1>12. r \in Rules /\ r.prefix = p /\ r.allow = allow /\ r.kept
    BY DEF Rules
  <1> HIDE DEF r
  <1>13. /\ rules' \in Seq(Rules) /\ DOMAIN rules' = 1 .. (Len(rules) + 1)
         /\ \A i \in DOMAIN rules : i \in DOMAIN rules' /\ rules'[i] = rules[i]
         /\ rules'[Len(rules) + 1] = r
         /\ \A i \in DOMAIN rules' : i \in DOMAIN rules \/ i = Len(rules) + 1
         /\ Len(rules) + 1 \in DOMAIN rules'
    <2>1. rules' \in Seq(Rules) /\ Len(rules') = Len(rules) + 1
      BY <1>1, <1>8, <1>12
    <2>2. DOMAIN rules' = 1 .. (Len(rules) + 1)
      BY <2>1
    <2>3. \A i \in 1 .. Len(rules) : rules'[i] = rules[i]
      BY <1>1, <1>8, <1>12
    <2>4. rules'[Len(rules) + 1] = r
      BY <1>1, <1>8, <1>12
    <2> QED BY <1>8, <2>1, <2>2, <2>3, <2>4
  <1>14. RulesOK'
    <2>1. ASSUME NEW i \in DOMAIN rules', NEW j \in DOMAIN rules', i < j,
                 rules'[i].kept, rules'[j].kept
          PROVE  ~Begins(rules'[i].prefix, rules'[j].prefix)
      <3>1. i \in DOMAIN rules
        BY <1>8, <1>13, <2>1
      <3>2. CASE j \in DOMAIN rules
        BY <1>4, <1>13, <2>1, <3>1, <3>2 DEF RulesOK
      <3>3. CASE j = Len(rules) + 1
        BY <1>9, <1>12, <1>13, <2>1, <3>1, <3>3
      <3> QED BY <1>13, <3>2, <3>3
    <2>2. default' \in BOOLEAN
      BY <1>4 DEF RulesOK
    <2> QED BY <1>1, <1>b, <1>13, <2>1, <2>2 DEF RulesOK
  <1>15. TrippedOK'
    BY <1>1, <1>3 DEF MatchInv, TrippedOK
  <1>16. TableOK(table)'
    <2>1. table' \in Trees
      BY <1>11 DEF Changed
    <2>2. ASSUME NEW q \in Keys PROVE ByRules(table, q)'
      <3>1. Entry(table', q) = IF q = p THEN allow ELSE Entry(table, q)
        BY <1>11 DEF Changed
      <3>2. ByRules(table, q)
        BY <1>4
      <3>3. \A i \in DOMAIN rules : rules[i].kept => rules[i].prefix # p
        <4>1. Begins(p, p)
          BY KeyIs DEF Begins
        <4> QED BY <1>9, <4>1
      <3>4. CASE q = p
        <4>1. \A i \in DOMAIN rules' : rules'[i].kept /\ rules'[i].prefix = q => rules'[i].allow = allow
          BY <1>12, <1>13, <3>3, <3>4
        <4>2. rules'[Len(rules) + 1].kept /\ rules'[Len(rules) + 1].prefix = q
          BY <1>12, <1>13, <3>4
        <4> QED BY <1>13, <3>1, <3>4, <4>1, <4>2 DEF ByRules
      <3>5. CASE q # p
        <4>1. \A i \in DOMAIN rules' : rules'[i].kept /\ rules'[i].prefix = q => i \in DOMAIN rules
          BY <1>12, <1>13, <3>5
        <4>2. \A i \in DOMAIN rules' :
                 rules'[i].kept /\ rules'[i].prefix = q => Entry(table', q) = rules'[i].allow
          BY <1>13, <3>1, <3>2, <3>5, <4>1 DEF ByRules
        <4>3. Entry(table', q) # Inner => \E i \in DOMAIN rules' : rules'[i].kept /\ rules'[i].prefix = q
          BY <1>13, <3>1, <3>2, <3>5 DEF ByRules
        <4> QED BY <4>2, <4>3 DEF ByRules
      <3> QED BY <3>4, <3>5
    <2> QED BY <2>1, <2>2 DEF TableOK
  <1>17. QueueOK(banned)'
    <2>1. banned' = banned /\ QueueOK(banned)
      BY DEF MatchInv
    <2>2. DOMAIN banned = {}
      BY <1>3, <2>1 DEF QueueOK
    <2>3. banned' \in Seq(Bans)
      BY <2>1 DEF QueueOK
    <2> QED BY <2>1, <2>2, <2>3 DEF QueueOK
  <1>18. BansOK(table, banned)'
    BY <1>3 DEF BansOK
  <1> QED BY <1>14, <1>15, <1>16, <1>17, <1>18 DEF MatchInv

\* An address that the table lets in makes one request too many.
LEMMA BanMatchInv ==
    ASSUME MatchInv, NEW t, NEW b, TableOK(t), QueueOK(b), BansOK(t, b),
           NEW a \in Clients, find(t, a).allow, stage = "serving", RequestsPerSec # 0,
           table' = insert(t, a, FALSE),
           banned' = IF banSec = 0 THEN b ELSE Append(b, [until |-> now + banSec * Second, addr |-> a]),
           tripped' = [tripped EXCEPT ![a] = now],
           UNCHANGED <<stage, default, banSec, now, rules>>
    PROVE  MatchInv'
  <1>1. /\ now \in Nat /\ BanTime \in Nat /\ BanTime' = BanTime /\ banSec \in Nat
        /\ \A c : Tripped(c) => c \in Clients /\ tripped[c] \in Nat
    BY BanTimes DEF BanTime
  <1>2. t \in Trees /\ a \in Keys /\ Len(a) = AddrLen /\ Inner \notin BOOLEAN
    BY AddressIs, BlackListAssumption DEF TableOK
  <1>3. tripped \in [Clients -> Nat \cup {Never}] /\ Never = -1
    BY DEF MatchInv, TrippedOK, Never
  <1>4. tripped'[a] = now /\ \A c \in Clients : c # a => tripped'[c] = tripped[c]
    BY <1>3
  <1>5. Tripped(a)' /\ \A c : c # a => (Tripped(c)' <=> Tripped(c))
    <2>1. now # Never
      BY <1>1, <1>3
    <2>2. Tripped(a)'
      BY <1>4, <2>1 DEF Tripped, Never
    <2>3. \A c : c # a => (Tripped(c)' <=> Tripped(c))
      BY <1>4 DEF Tripped, Never
    <2> QED BY <2>2, <2>3
  <1>6. \A c : OwnRule(c)' <=> OwnRule(c)
    BY DEF OwnRule
  <1>7. ~PastEnd(t, a)
    <2>1. LastOnWay(t, a) \in Keys
      BY <1>2, LastIs, TreeIs
    <2>2. Len(LastOnWay(t, a)) \in Nat /\ Len(LastOnWay(t, a)) <= AddrLen /\ AddrLen \in Nat
      BY <2>1, KeyIs
    <2> QED BY <1>2, <2>2 DEF PastEnd
  <1>8. IF Entry(t, a) = Inner THEN Changed(t, table', a, FALSE) ELSE table' = t
    <2>1. FALSE \in BOOLEAN
      OBVIOUS
    <2> QED BY <1>2, <1>7, <2>1, InsertEntry
  <1>9. table' \in Trees /\ \A c : c # a => Entry(table', c) = Entry(t, c)
    BY <1>2, <1>8 DEF Changed
  <1>10. ASSUME ~OwnRule(a) PROVE ~IsBanned(b, a) /\ Entry(table', a) = FALSE
    <2>1. Entry(t, a) # FALSE
      <3> SUFFICES ASSUME Entry(t, a) = FALSE PROVE FALSE
        OBVIOUS
      <3>1. Entry(t, a) # Inner
        BY <1>2
      <3>2. find(t, a).allow = FALSE
        BY <1>2, <3>1, OwnEntry
      <3> QED BY <3>2
    <2>2. CASE Tripped(a)
      <3>1. IF banSec = 0 \/ IsBanned(b, a) THEN Entry(t, a) = FALSE ELSE Entry(t, a) = Inner
        BY <1>10, <2>2 DEF BansOK
      <3>2. ~IsBanned(b, a) /\ Entry(t, a) = Inner
        BY <2>1, <3>1
      <3> QED BY <1>8, <3>2 DEF Changed
    <2>3. CASE ~Tripped(a)
      <3>1. ByRules(t, a)
        BY <1>2, <2>3 DEF TableOK
      <3>2. Entry(t, a) = Inner
        BY <1>10, <3>1 DEF ByRules, OwnRule
      <3>3. ~IsBanned(b, a)
        BY <2>3 DEF IsBanned, QueueOK
      <3> QED BY <1>8, <3>2, <3>3 DEF Changed
    <2> QED BY <2>2, <2>3
  <1>11. RulesOK'
    BY DEF MatchInv, RulesOK, SkippedForEarlier, Covering
  <1>12. TrippedOK'
    <2>1. tripped' \in [Clients -> Nat \cup {Never}]
      BY <1>1, <1>3
    <2> QED BY <1>1, <2>1 DEF TrippedOK, Never
  <1>13. TableOK(table)'
    <2> SUFFICES ASSUME NEW p \in Keys, ~Tripped(p)' PROVE ByRules(table, p)'
      BY <1>9 DEF TableOK
    <2>1. p # a /\ ~Tripped(p)
      BY <1>5
    <2>2. ByRules(t, p) /\ Entry(table', p) = Entry(t, p)
      BY <1>9, <2>1 DEF TableOK
    <2> QED BY <2>2 DEF ByRules
  <1>14. QueueOK(banned)' /\ \A c : IsBanned(banned, c)' <=> IsBanned(b, c) \/ (c = a /\ banSec # 0)
    <2>0. /\ Len(b) \in Nat /\ DOMAIN b = 1 .. Len(b) /\ b \in Seq(Bans)
          /\ \A j \in DOMAIN b : b[j].until \in Nat /\ b[j].addr \in Clients
      BY QueueTypes DEF QueueOK
    <2>1. \A i \in DOMAIN b : Tripped(b[i].addr)' /\ b[i].until <= now + BanTime
      BY <1>5 DEF QueueOK
    <2>2. \A i \in DOMAIN b : ~OwnRule(b[i].addr) => b[i].until = tripped'[b[i].addr] + BanTime
      <3> SUFFICES ASSUME NEW i \in DOMAIN b, ~OwnRule(b[i].addr)
                   PROVE  b[i].until = tripped'[b[i].addr] + BanTime
        OBVIOUS
      <3>1. b[i].addr # a
        BY <1>10 DEF IsBanned
      <3>2. b[i].until = tripped[b[i].addr] + BanTime
        BY DEF QueueOK
      <3> QED BY <1>4, <2>0, <3>1, <3>2
    <2>3. CASE banSec = 0
      <3>1. banned' = b
        BY <2>3
      <3>2. \A i, j \in DOMAIN b : i < j => b[i].until <= b[j].until
        BY DEF QueueOK
      <3>3. QueueOK(banned)'
        BY <1>1, <1>6, <2>0, <2>1, <2>2, <3>1, <3>2 DEF QueueOK
      <3> QED BY <2>3, <3>1, <3>3 DEF IsBanned
    <2>4. CASE banSec # 0
      <3> DEFINE x == [until |-> now + BanTime, addr |-> a]
      <3>1. banned' = Append(b, x)
        BY <2>4 DEF BanTime
      <3>2. x \in Bans /\ x.until = now + BanTime /\ x.addr = a
        BY <1>1 DEF Bans
      <3> HIDE DEF x
      <3>3. /\ banned' \in Seq(Bans) /\ DOMAIN banned' = 1 .. (Len(b) + 1)
            /\ \A i \in DOMAIN b : i \in DOMAIN banned' /\ banned'[i] = b[i]
            /\ banned'[Len(b) + 1] = x
            /\ \A i \in DOMAIN banned' : i \in DOMAIN b \/ i = Len(b) + 1
            /\ Len(b) + 1 \in DOMAIN banned'
        <4>1. banned' \in Seq(Bans) /\ Len(banned') = Len(b) + 1
          BY <2>0, <3>1, <3>2
        <4>2. DOMAIN banned' = 1 .. (Len(b) + 1)
          BY <4>1
        <4>3. \A i \in 1 .. Len(b) : banned'[i] = b[i]
          BY <2>0, <3>1, <3>2
        <4>4. banned'[Len(b) + 1] = x
          BY <2>0, <3>1, <3>2
        <4> QED BY <2>0, <4>1, <4>2, <4>3, <4>4
      <3>4. ASSUME NEW i \in DOMAIN banned', NEW j \in DOMAIN banned', i < j
            PROVE  banned'[i].until <= banned'[j].until
        <4>1. i \in DOMAIN b
          BY <2>0, <3>3, <3>4
        <4>2. CASE j \in DOMAIN b
          BY <3>3, <3>4, <4>1, <4>2 DEF QueueOK
        <4>3. CASE j = Len(b) + 1
          BY <2>1, <3>2, <3>3, <4>1, <4>3
        <4> QED BY <3>3, <4>2, <4>3
      <3>5. ASSUME NEW i \in DOMAIN banned'
            PROVE  /\ (banned[i].until <= now + BanTime)' /\ Tripped(banned[i].addr)'
                   /\ ~OwnRule(banned[i].addr)' => (banned[i].until = tripped[banned[i].addr] + BanTime)'
        <4>1. PICK y : y = banned'[i]
          OBVIOUS
        <4>2. /\ y.until <= now + BanTime /\ Tripped(y.addr)'
              /\ ~OwnRule(y.addr) => y.until = tripped'[y.addr] + BanTime
          <5>1. CASE i \in DOMAIN b
            <6>1. y = b[i]
              BY <3>3, <4>1, <5>1
            <6> QED BY <2>1, <2>2, <5>1, <6>1
          <5>2. CASE i = Len(b) + 1
            <6>1. y = x
              BY <3>3, <4>1, <5>2
            <6>2. now + BanTime <= now + BanTime
              BY <1>1
            <6> QED BY <1>4, <1>5, <3>2, <6>1, <6>2
          <5> QED BY <3>3, <5>1, <5>2
        <4>3. (y.until <= now + BanTime)' /\ (~OwnRule(y.addr)' => (y.until = tripped[y.addr] + BanTime)')
          BY <1>1, <1>6, <4>2
        <4>4. Tripped(banned[i].addr)' <=> Tripped(y.addr)'
          BY <4>1 DEF Tripped
        <4>5. OwnRule(banned[i].addr)' <=> OwnRule(y.addr)'
          BY <4>1 DEF OwnRule
        <4> QED BY <4>1, <4>2, <4>3, <4>4, <4>5
      <3>6. QueueOK(banned)'
        BY <3>3, <3>4, <3>5 DEF QueueOK
      <3>7. \A c : IsBanned(banned, c)' <=> IsBanned(b, c) \/ c = a
        BY <3>2, <3>3 DEF IsBanned
      <3> QED BY <2>4, <3>6, <3>7
    <2> QED BY <2>3, <2>4
  <1>15. BansOK(table, banned)'
    <2> SUFFICES ASSUME NEW c \in Clients, Tripped(c)', ~OwnRule(c)'
                 PROVE  IF banSec' = 0 \/ IsBanned(banned, c)' THEN Entry(table, c)' = FALSE
                        ELSE Entry(table, c)' = Inner /\ tripped'[c] + BanTime' <= now'
      BY DEF BansOK
    <2>1. CASE c = a
      <3>1. Entry(table', a) = FALSE
        BY <1>6, <1>10, <2>1
      <3>2. banSec' = 0 \/ IsBanned(banned, a)'
        BY <1>14
      <3>3. Entry(table, a)' = FALSE
        BY <3>1 DEF Entry, HasLeaf
      <3> QED BY <2>1, <3>2, <3>3
    <2>2. CASE c # a
      <3>1. Tripped(c) /\ ~OwnRule(c)
        BY <1>5, <1>6, <2>2
      <3>2. IF banSec = 0 \/ IsBanned(b, c) THEN Entry(t, c) = FALSE
            ELSE Entry(t, c) = Inner /\ tripped[c] + BanTime <= now
        BY <3>1 DEF BansOK
      <3>3. IsBanned(banned, c)' <=> IsBanned(b, c)
        BY <1>14, <2>2
      <3>4. Entry(table, c)' = Entry(t, c)
        <4>1. Entry(table', c) = Entry(t, c)
          BY <1>9, <2>2
        <4> QED BY <4>1 DEF Entry, HasLeaf
      <3>5. tripped'[c] = tripped[c] /\ BanTime' = BanTime /\ now' = now /\ banSec' = banSec
        BY <1>1, <1>4, <2>2
      <3> QED BY <3>2, <3>3, <3>4, <3>5
    <2> QED BY <2>1, <2>2
  <1> QED BY <1>11, <1>12, <1>13, <1>14, <1>15 DEF MatchInv

LEMMA NextMatchInv == MatchInv /\ [BlackListNext]_blackListVars => MatchInv'
  <1> SUFFICES ASSUME MatchInv, [BlackListNext]_blackListVars PROVE MatchInv'
    OBVIOUS
  <1>0. /\ TableOK(table) /\ QueueOK(banned) /\ BansOK(table, banned)
        /\ default \in BOOLEAN /\ now \in Nat /\ now <= now
    BY DEF MatchInv, RulesOK, TrippedOK
  <1>a. PICK t0, b0 : t0 = table /\ b0 = banned
    OBVIOUS
  <1>b. TableOK(t0) /\ QueueOK(b0) /\ BansOK(t0, b0)
    BY <1>0, <1>a
  <1>1. ASSUME NEW r \in Lines, ReadRule(r.prefix, r.allow) PROVE MatchInv'
    <2>0. PICK p, allow : p = r.prefix /\ allow = r.allow /\ p \in Keys /\ allow \in BOOLEAN
      BY LineIs
    <2>1. /\ stage = "reading" /\ addRule(p, allow)
          /\ UNCHANGED <<default, banned, banSec, now, tripped>>
      BY <1>1, <2>0 DEF ReadRule
    <2>2. CASE Enter(p, allow) /\ ~find(table, Network(p)).found /\ ~PastEnd(table, p)
      BY <2>0, <2>1, <2>2, EnterMatchInv
    <2>3. CASE stage' = "broken" /\ UNCHANGED <<table, rules>>
      BY <1>0, <1>a, <1>b, <2>1, <2>3, SameRules
    <2>4. CASE /\ find(table, Network(p)).found /\ Note(p, allow, FALSE)
               /\ UNCHANGED <<stage, table>>
      BY <2>0, <2>1, <2>4, SkipMatchInv
    <2> QED BY <2>1, <2>2, <2>3, <2>4 DEF addRule
  <1>2. ASSUME NEW allow \in BOOLEAN, ReadAll(allow) PROVE MatchInv'
    <2>1. default' \in BOOLEAN
      BY <1>2 DEF ReadAll
    <2> QED BY <1>0, <1>2, <1>a, <1>b, <2>1, SameRules DEF ReadAll
  <1>3. CASE ReadEnd
    BY <1>0, <1>3, <1>a, <1>b, SameRules DEF ReadEnd
  <1>4. CASE ReadInvalid
    BY <1>0, <1>4, <1>a, <1>b, SameRules DEF ReadInvalid
  <1>5. ASSUME NEW a \in Clients, processIp(a) PROVE MatchInv'
    <2>1. stage = "serving" /\ Admit(a, Unbanned) /\ UNCHANGED <<stage, default, banSec, now, rules>>
      BY <1>5 DEF processIp
    <2>2. PICK t, b : t = Unbanned.table /\ b = Unbanned.banned
      OBVIOUS
    <2>3. TableOK(t) /\ QueueOK(b) /\ BansOK(t, b)
      BY <2>2, AfterUnban
    <2>4. CASE table' = t /\ banned' = b /\ tripped' = tripped
      BY <1>0, <2>1, <2>3, <2>4, SameRules
    <2>5. CASE ~(table' = t /\ banned' = b /\ tripped' = tripped)
      <3>1. find(t, a).allow /\ Count(a, Unbanned, Inc(a))
        BY <2>1, <2>2, <2>5 DEF Admit
      <3>2. /\ Inc(a).triggered
            /\ table' = insert(t, a, FALSE)
            /\ banned' = IF banSec = 0 THEN b
                         ELSE Append(b, [until |-> now + banSec * Second, addr |-> a])
            /\ tripped' = [tripped EXCEPT ![a] = now]
        BY <2>2, <2>5, <3>1 DEF Count
      <3>3. RequestsPerSec # 0
        BY <3>2 DEF Inc
      <3> QED BY <2>1, <2>3, <3>1, <3>2, <3>3, BanMatchInv
    <2> QED BY <2>4, <2>5
  <1>6. CASE Tick
    <2>1. now' = now + 1 /\ now' \in Nat /\ now <= now'
      BY <1>0, <1>6 DEF Tick
    <2> QED BY <1>0, <1>6, <1>a, <1>b, <2>1, SameRules DEF Tick
  <1>7. CASE UNCHANGED blackListVars
    BY <1>0, <1>7, <1>a, <1>b, SameRules DEF blackListVars
  <1> QED BY <1>1, <1>2, <1>3, <1>4, <1>5, <1>6, <1>7 DEF BlackListNext

LEMMA MatchInvariance == BlackListSpec => []MatchInv
  BY InitMatchInv, NextMatchInv, PTL DEF BlackListSpec

\* A rule is skipped exactly if an earlier one that was not covers its network address, and the
\* table answers for an address that was never banned as the first rule that covers it and was
\* not skipped (addRule, ban, unban; insert, erase and longest_match of the radix tree), for any
\* rules that do not break the tree, any addresses and lengths.  The invariant says which
\* entries the table has, and of two rules that cover an address the earlier has the longer
\* prefix.
THEOREM FirstRuleDecides == BlackListSpec => []FirstMatch
  BY MatchInvariance, InvFirstMatch, PTL

\* An address without a rule of its own that made too many requests is refused until its ban is
\* over, and then the rules decide again (processIp, ban, unban), for any ban times, any other
\* addresses and any rules that do not break the tree.
THEOREM BansAreExact == BlackListSpec => []BanExact
  BY MatchInvariance, InvBanExact, PTL

-----------------------------------------------------------------------------
(* RateBound for the addresses that a ban keeps out.                         *)

LEMMA RecentIs ==
    ASSUME now \in Nat, NEW h \in Seq(Nat), \A i \in DOMAIN h : h[i] <= now
    PROVE  /\ Recent(h) \in Seq(Nat) /\ Len(Recent(h)) <= Len(h)
           /\ \A i \in DOMAIN Recent(h) : \E j \in DOMAIN h : Recent(h)[i] = h[j]
           /\ (\A i \in DOMAIN h : ~(now - h[i] < Wnd)) => Recent(h) = <<>>
  <1>1. Len(h) \in Nat /\ DOMAIN h = 1 .. Len(h)
    OBVIOUS
  <1>2. Len(Recent(h)) <= Len(h)
    <2>1. CASE Len(Recent(h)) = 0
      BY <1>1, <2>1
    <2>2. CASE \E j \in DOMAIN h : IsRecent(h[j]) /\ Len(Recent(h)) = Since(h, j)
      BY <1>1, <2>2 DEF Since
    <2> QED BY <2>1, <2>2, RecentPart
  <1>3. (\A i \in DOMAIN h : ~(now - h[i] < Wnd)) => Recent(h) = <<>>
    BY DEF Recent
  <1> QED BY <1>2, <1>3, RecentPart

\* The history of an address that tripped and was not let in since.
Gone(a) ==
    /\ Tripped(a) /\ hits[a] = <<>>
    /\ Len(entered[a]) < 2 * Limit
    /\ \A i \in DOMAIN entered[a] : entered[a][i] <= tripped[a]

\* The two histories of an address that a ban keeps out differ only while it is kept out.
EnteredInv ==
    /\ entered \in [Clients -> Seq(Nat)]
    /\ \A a \in Clients : \A i \in DOMAIN entered[a] : entered[a][i] <= now
    /\ stage # "serving" => \A a \in Clients : entered[a] = hits[a]
    /\ \A a \in Clients : KeptOut(a) => entered[a] = hits[a] \/ Gone(a)

LEMMA InitEnteredInv == BlackListInit => EnteredInv
  <1> SUFFICES ASSUME BlackListInit PROVE EnteredInv
    OBVIOUS
  <1>1. entered = [a \in Clients |-> <<>>] /\ hits = [a \in Clients |-> <<>>]
    BY DEF BlackListInit
  <1>2. \A a \in Clients : entered[a] = <<>> /\ hits[a] = <<>> /\ DOMAIN entered[a] = {}
    BY <1>1
  <1> QED BY <1>1, <1>2 DEF EnteredInv

\* An address that tripped is let in again only when its ban is over, and by then the times from
\* before are over as well.
LEMMA LetInAgain ==
    ASSUME RequestsPerSec # 0, MatchInv, EnteredInv, NEW a \in Clients, KeptOut(a), Gone(a),
           find(Unbanned.table, a).allow
    PROVE  Recent(entered[a]) = <<>>
  <1>1. /\ now \in Nat /\ banSec \in Nat /\ tripped[a] \in Nat /\ Second \in Nat /\ WindowSec \in Nat
        /\ Wnd = WindowSec * Second /\ Wnd \in Nat
    BY BanTimes, Ticks DEF Gone, MatchInv, TrippedOK
  <1>2. ~BanRuns(a)
    <2>1. BanExact
      BY InvBanExact
    <2>2. find(Unbanned.table, a).allow = (RuledAllow(a) /\ ~BanRuns(a))
      BY <2>1 DEF BanExact, Gone, KeptOut
    <2> QED BY <2>2
  <1>3. banSec # 0 /\ ~(now < tripped[a] + banSec * Second) /\ WindowSec <= banSec
    BY <1>1, <1>2 DEF BanRuns, Gone, KeptOut
  <1>4. WindowSec * Second <= banSec * Second /\ banSec * Second \in Nat
    <2>1. \A x, y, z \in Nat : x <= y => x * z <= y * z
      OBVIOUS
    <2>2. \A x, y \in Nat : x * y \in Nat
      OBVIOUS
    <2> QED BY <1>1, <1>3, <2>1, <2>2
  <1>5. entered[a] \in Seq(Nat) /\ \A i \in DOMAIN entered[a] : entered[a][i] \in Nat
    BY DEF EnteredInv
  <1>6. \A i \in DOMAIN entered[a] : entered[a][i] <= tripped[a] /\ entered[a][i] <= now
    BY DEF Gone, EnteredInv
  <1>7. \A i \in DOMAIN entered[a] : ~(now - entered[a][i] < Wnd)
    <2> SUFFICES ASSUME NEW x \in Nat, x <= tripped[a] PROVE ~(now - x < Wnd)
      BY <1>5, <1>6
    <2>1. PICK b \in Nat : b = banSec * Second
      BY <1>4
    <2> QED BY <1>1, <1>3, <1>4, <2>1
  <1> QED BY <1>1, <1>5, <1>6, <1>7, RecentIs

LEMMA CountEnteredInv ==
    ASSUME RequestsPerSec # 0, RateInv, MatchInv, EnteredInv, stage = "serving", NEW addr \in Clients,
           find(Unbanned.table, addr).allow, Count(addr, Unbanned, Inc(addr)),
           UNCHANGED <<stage, banSec, now, rules>>
    PROVE  EnteredInv'
  <1>1. /\ now \in Nat /\ hits \in [Clients -> Seq(Nat)] /\ entered \in [Clients -> Seq(Nat)]
        /\ \A a \in Clients : \A i \in DOMAIN entered[a] : entered[a][i] <= now
        /\ \A a \in Clients : KeptOut(a) => entered[a] = hits[a] \/ Gone(a)
        /\ Limit \in Nat
    BY Ticks DEF RateInv, HitsOK, EnteredInv
  <1>2. \A a : KeptOut(a)' <=> KeptOut(a)
    BY DEF KeptOut, OwnRule
  <1>3. ASSUME NEW a \in Clients
        PROVE  /\ Recent(entered[a]) \in Seq(Nat) /\ Len(Recent(entered[a])) <= Len(entered[a])
               /\ \A i \in DOMAIN Recent(entered[a]) :
                     \E j \in DOMAIN entered[a] : Recent(entered[a])[i] = entered[a][j]
    BY <1>1, RecentIs
  <1>4. \A a \in Clients : Len(entered[a]) \in Nat /\ Len(Recent(entered[a])) \in Nat
    BY <1>1, <1>3
  <1>5. \A a \in Clients : \A i \in DOMAIN Recent(entered[a]) : Recent(entered[a])[i] <= now
    BY <1>1, <1>3
  <1>6. tripped \in [Clients -> Nat \cup {Never}] /\ now # Never
    BY <1>1 DEF MatchInv, TrippedOK, Never
  <1>7. CASE Inc(addr).triggered
    <2>1. /\ tripped' = [tripped EXCEPT ![addr] = now] /\ hits' = [hits EXCEPT ![addr] = <<>>]
          /\ entered' = [entered EXCEPT ![addr] = Recent(entered[addr])]
      BY <1>7 DEF Count
    <2>2. /\ tripped'[addr] = now /\ hits'[addr] = <<>> /\ entered'[addr] = Recent(entered[addr])
          /\ \A a \in Clients : a # addr =>
                 tripped'[a] = tripped[a] /\ hits'[a] = hits[a] /\ entered'[a] = entered[a]
          /\ entered' \in [Clients -> Seq(Nat)]
      BY <1>1, <1>3, <1>6, <2>1
    <2>3. \A a \in Clients : \A i \in DOMAIN entered'[a] : entered'[a][i] <= now
      BY <1>1, <1>5, <2>2
    <2>4. ASSUME KeptOut(addr) PROVE Gone(addr)'
      <3>1. Len(Recent(entered[addr])) < 2 * Limit
        <4>1. CASE entered[addr] = hits[addr]
          BY <4>1, FewHits
        <4>2. CASE Gone(addr)
          BY <1>1, <1>3, <1>4, <4>2 DEF Gone
        <4> QED BY <1>1, <2>4, <4>1, <4>2
      <3>2. Limit' = Limit
        BY DEF Limit
      <3> QED BY <1>5, <1>6, <2>2, <3>1, <3>2 DEF Gone, Tripped
    <2>5. ASSUME NEW a \in Clients, a # addr, Gone(a) PROVE Gone(a)'
      BY <2>2, <2>5 DEF Gone, Tripped, Limit
    <2> QED BY <1>1, <1>2, <2>2, <2>3, <2>4, <2>5 DEF EnteredInv
  <1>8. CASE ~Inc(addr).triggered
    <2>1. /\ tripped' = tripped /\ hits' = More(hits, addr)
          /\ entered' = [a \in Clients |-> IF KeptOut(a) THEN More(entered, addr)[a] ELSE <<>>]
      BY <1>8 DEF Count
    <2>2. Append(Recent(entered[addr]), now) \in Seq(Nat)
          /\ \A i \in DOMAIN Append(Recent(entered[addr]), now) :
                  Append(Recent(entered[addr]), now)[i] <= now
      <3>1. PICK r : r = Recent(entered[addr])
        OBVIOUS
      <3>2. r \in Seq(Nat) /\ \A i \in DOMAIN r : r[i] <= now
        BY <1>3, <1>5, <3>1
      <3>3. /\ Append(r, now) \in Seq(Nat)
            /\ \A i \in DOMAIN Append(r, now) :
                  Append(r, now)[i] = now \/ (i \in DOMAIN r /\ Append(r, now)[i] = r[i])
        BY <1>1, <3>2, OneMoreHit
      <3>4. \A i \in DOMAIN Append(r, now) : Append(r, now)[i] <= now
        BY <1>1, <3>2, <3>3
      <3> QED BY <3>1, <3>3, <3>4
    <2>3. \A a \in Clients :
             /\ entered'[a] = IF ~KeptOut(a) THEN <<>>
                               ELSE IF a = addr THEN Append(Recent(entered[a]), now) ELSE Recent(entered[a])
             /\ hits'[a] = IF a = addr THEN Append(Recent(hits[a]), now) ELSE Recent(hits[a])
      BY <2>1 DEF More
    <2>4. \A a \in Clients : entered'[a] \in Seq(Nat) /\ \A i \in DOMAIN entered'[a] : entered'[a][i] <= now
      <3> SUFFICES ASSUME NEW a \in Clients
                   PROVE  entered'[a] \in Seq(Nat) /\ \A i \in DOMAIN entered'[a] : entered'[a][i] <= now
        OBVIOUS
      <3>1. CASE ~KeptOut(a)
        <4>1. entered'[a] = <<>> /\ DOMAIN entered'[a] = {}
          BY <2>3, <3>1
        <4> QED BY <4>1
      <3>2. CASE KeptOut(a) /\ a = addr
        BY <2>2, <2>3, <3>2
      <3>3. CASE KeptOut(a) /\ a # addr
        BY <1>3, <1>5, <2>3, <3>3
      <3> QED BY <3>1, <3>2, <3>3
    <2>5. entered' \in [Clients -> Seq(Nat)]
      <3>1. entered' = [a \in Clients |-> entered'[a]]
        BY <2>1
      <3> QED BY <2>4, <3>1
    <2>6. ASSUME NEW a \in Clients, KeptOut(a) PROVE entered'[a] = hits'[a] \/ Gone(a)'
      <3>1. CASE entered[a] = hits[a]
        BY <2>3, <2>6, <3>1
      <3>2. CASE Gone(a) /\ a # addr
        <4>1. Recent(<<>>) = <<>>
          BY DEF Recent
        <4>2. hits'[a] = <<>> /\ entered'[a] = Recent(entered[a])
          BY <2>3, <2>6, <3>2, <4>1 DEF Gone
        <4>3. Len(entered'[a]) < 2 * Limit
          BY <1>1, <1>3, <1>4, <3>2, <4>2 DEF Gone
        <4>4. \A i \in DOMAIN entered'[a] : entered'[a][i] <= tripped[a]
          BY <1>3, <3>2, <4>2 DEF Gone
        <4> QED BY <2>1, <3>2, <4>2, <4>3, <4>4 DEF Gone, Tripped, Limit
      <3>3. CASE Gone(a) /\ a = addr
        <4>1. Recent(entered[a]) = <<>>
          BY <2>6, <3>3, LetInAgain
        <4>2. hits[a] = <<>> /\ Recent(<<>>) = <<>>
          BY <3>3 DEF Gone, Recent
        <4> QED BY <2>3, <2>6, <3>3, <4>1, <4>2
      <3> QED BY <1>1, <2>6, <3>1, <3>2, <3>3
    <2> QED BY <1>2, <2>4, <2>5, <2>6 DEF EnteredInv
  <1> QED BY <1>7, <1>8

LEMMA NextEnteredInv ==
    ASSUME RequestsPerSec # 0, RateInv, MatchInv, EnteredInv, [BlackListNext]_blackListVars
    PROVE  EnteredInv'
  <1>1. now \in Nat /\ entered \in [Clients -> Seq(Nat)]
        /\ \A a \in Clients : \A i \in DOMAIN entered[a] : entered[a][i] <= now
    BY DEF RateInv, HitsOK, EnteredInv
  <1>2. ASSUME UNCHANGED <<hits, entered, now>>, stage # "serving" PROVE EnteredInv'
    BY <1>2 DEF EnteredInv
  <1>3. ASSUME UNCHANGED <<stage, banSec, rules, hits, entered, tripped>>, now' = now \/ now' = now + 1
        PROVE  EnteredInv'
    <2>1. \A a : (KeptOut(a)' <=> KeptOut(a)) /\ (Gone(a)' <=> Gone(a))
      BY <1>3 DEF KeptOut, OwnRule, Gone, Tripped, Limit
    <2>2. \A a \in Clients : \A i \in DOMAIN entered[a] : entered[a][i] \in Nat /\ entered[a][i] <= now'
      BY <1>1, <1>3
    <2> QED BY <1>3, <2>1, <2>2 DEF EnteredInv
  <1>4. ASSUME NEW r \in Lines, ReadRule(r.prefix, r.allow) PROVE EnteredInv'
    BY <1>2, <1>4 DEF ReadRule
  <1>5. ASSUME NEW allow \in BOOLEAN, ReadAll(allow) PROVE EnteredInv'
    BY <1>2, <1>5 DEF ReadAll
  <1>6. CASE ReadEnd
    BY <1>2, <1>6 DEF ReadEnd
  <1>7. CASE ReadInvalid
    BY <1>2, <1>7 DEF ReadInvalid
  <1>8. ASSUME NEW a \in Clients, processIp(a) PROVE EnteredInv'
    <2>1. stage = "serving" /\ Admit(a, Unbanned) /\ UNCHANGED <<stage, banSec, now, rules>>
      BY <1>8 DEF processIp
    <2>2. CASE find(Unbanned.table, a).allow
      BY <2>1, <2>2, CountEnteredInv DEF Admit
    <2>3. CASE ~find(Unbanned.table, a).allow
      BY <1>3, <2>1, <2>3 DEF Admit
    <2> QED BY <2>2, <2>3
  <1>9. CASE Tick
    BY <1>3, <1>9 DEF Tick
  <1>10. CASE UNCHANGED blackListVars
    BY <1>3, <1>10 DEF blackListVars
  <1> QED BY <1>4, <1>5, <1>6, <1>7, <1>8, <1>9, <1>10 DEF BlackListNext

\* However the requests of an address fall on its windows, and whichever windows the requests of
\* others remove, it is let in less than twice its limit in the time of a window if its bans hold
\* for that time, that is, if it has no rule of its own and ban-ip-sec is not less than the
\* window or 0; any address is since it last tripped (IpMap::inc, removeItAndNeighbor, ban).
\* This is for any limit, window, ban and rules that do not break the tree.
THEOREM RateIsBounded == BlackListSpec => []RateBound
  <1>1. CASE RequestsPerSec # 0
    <2>1. RateInv /\ MatchInv /\ EnteredInv /\ [BlackListNext]_blackListVars => EnteredInv'
      BY <1>1, NextEnteredInv
    <2>2. BlackListSpec => []RateInv
      BY <1>1, RateInvariance
    <2>3. BlackListSpec => []EnteredInv
      BY <2>1, <2>2, InitEnteredInv, MatchInvariance, PTL DEF BlackListSpec
    <2>4. RateInv /\ EnteredInv => RateBound
      <3> SUFFICES ASSUME RateInv, EnteredInv, NEW a \in Clients
                   PROVE  /\ Len(Recent(hits[a])) < 2 * Limit
                          /\ KeptOut(a) => Len(Recent(entered[a])) < 2 * Limit
        BY DEF RateBound
      <3>1. Len(Recent(hits[a])) < 2 * Limit
        BY <1>1, FewHits
      <3>2. CASE entered[a] = hits[a]
        BY <3>1, <3>2
      <3>3. CASE Gone(a)
        <4>1. /\ now \in Nat /\ entered[a] \in Seq(Nat) /\ Limit \in Nat
              /\ \A i \in DOMAIN entered[a] : entered[a][i] <= now
          BY Ticks DEF RateInv, HitsOK, EnteredInv
        <4>2. Recent(entered[a]) \in Seq(Nat) /\ Len(Recent(entered[a])) <= Len(entered[a])
          BY <4>1, RecentIs
        <4>3. Len(Recent(entered[a])) \in Nat /\ Len(entered[a]) \in Nat
          BY <4>1, <4>2
        <4> QED BY <3>1, <3>3, <4>1, <4>2, <4>3 DEF Gone
      <3> QED BY <3>1, <3>2, <3>3 DEF EnteredInv
    <2> QED BY <2>2, <2>3, <2>4, PTL
  <1>2. CASE RequestsPerSec = 0
    <2>1. RateBound
      BY <1>2 DEF RateBound
    <2> QED BY <2>1, PTL
  <1> QED BY <1>1, <1>2
=============================================================================
