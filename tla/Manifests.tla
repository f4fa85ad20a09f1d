------------------------------ MODULE Manifests ------------------------------
(***************************************************************************)
(* pkg/manifest: which YAML files a scan of directories reads, and how     *)
(* often.  Scan walks everything below a directory; ScanWithKustomize      *)
(* follows kustomizations and, when they lead to no Crossplane manifest,   *)
(* looks into the subdirectories.  Its calls of itself are frames of a     *)
(* stack: a directory, how it is gone through ("kust": what its            *)
(* kustomization lists; "entries": what is in it), and how far.            *)
(*                                                                         *)
(* tree.given is the directories asked for; tree.kust[d] the entries that  *)
(* the kustomization of d lists, NoKustomization, or BadKustomization, a   *)
(* YAML file that is no kustomization; tree.kind[f] tells of a file:       *)
(* "crossplane" and "other" hold manifests, "broken" cannot be read,       *)
(* "text" is not YAML, and "missing" is listed but not there.              *)
(***************************************************************************)
EXTENDS Naturals, FiniteSets, Sequences, SequencesExt

CONSTANTS Dir, File,
          Entries,  \* Entries[d]: the files and directories in d, in order
          Trees     \* the directory trees considered

NoKustomization == <<"none">>
BadKustomization == <<"bad">>

ASSUME PathsAssumption ==
  Dir \cap File = {} /\ Entries \in [Dir -> Seq(Dir \cup File)]

ASSUME TreesAssumption ==
  \A t \in Trees :
    /\ t.given \in Seq(Dir)
    /\ \A d \in Dir :
         t.kust[d] \in {NoKustomization, BadKustomization} \/ t.kust[d] \in Seq(Dir \cup File)

VARIABLES tree,      \* chosen once
          scanning,  \* "off", "follow", "look", "done" or "failed"
          given,     \* how many of the given directories the loop has taken up
          stack,     \* the calls under way, the innermost first
          visited,   \* the directories scanKustomizeTree has been in
          count      \* the manifests of file f are in the result count[f] times

scanVars == <<tree, scanning, given, stack, visited, count>>

NoTree == [given |-> << >>, kust |-> << >>, kind |-> << >>]

Nothing ==
  /\ given = 0 /\ stack = << >> /\ visited = {} /\ count = [f \in File |-> 0]

ScanIdle == scanning = "off" /\ tree = NoTree /\ Nothing

ScanInit == scanning = "follow" /\ tree \in Trees /\ Nothing

-----------------------------------------------------------------------------
(* filepath.Walk                                                           *)
FilesBelow[d \in Dir] ==
  (ToSet(Entries[d]) \cap File) \cup UNION {FilesBelow[s] : s \in ToSet(Entries[d]) \cap Dir}

Plain(d) == tree.kust[d] = NoKustomization
Followable(d) == tree.kust[d] \notin {NoKustomization, BadKustomization}

Yaml(f) == tree.kind[f] \notin {"text", "missing"}
Readable(f) == tree.kind[f] \in {"crossplane", "other"}

Frame(on, dir, at) == [on |-> on, dir |-> dir, at |-> at]

Through(frame) == IF frame.on = "kust" THEN tree.kust[frame.dir] ELSE Entries[frame.dir]

Top == Head(stack)
AtEnd == Top.at = Len(Through(Top))
Entry == Through(Top)[Top.at + 1]
Advanced == <<[Top EXCEPT !.at = @ + 1]>> \o Tail(stack)

Classified(files) == [f \in File |-> count[f] + IF f \in files THEN 1 ELSE 0]

(* Scan and scanDirectYAMLs, the calls in rest going on afterwards: the    *)
(* first YAML file below d that cannot be read ends everything.            *)
Scan(d, rest) ==
  LET files == {f \in File : f \in FilesBelow[d] /\ Yaml(f)} IN
  \/ /\ \A f \in files : Readable(f)
     /\ count' = Classified(files) /\ stack' = rest
     /\ UNCHANGED scanning
  \/ /\ \E f \in files : ~Readable(f)
     /\ scanning' = "failed" /\ stack' = << >>
     /\ UNCHANGED count

(* Mutant: nothing is marked as visited when its own kustomization lists   *)
(* files only.                                                             *)
MarkDirectories(d) ==
  visited \cup {e \in {d} : \E i \in 1 .. Len(tree.kust[d]) : tree.kust[d][i] \in Dir}

Mark(d) == visited \cup {d}

(* scanKustomizeTree of d                                                  *)
scanKustomizeTree(d, rest) ==
  \/ /\ d \in visited
     /\ stack' = rest
     /\ UNCHANGED <<scanning, visited, count>>
  \/ /\ d \notin visited /\ Followable(d)
     /\ visited' = Mark(d) /\ stack' = <<Frame("kust", d, 0)>> \o rest
     /\ UNCHANGED <<scanning, count>>
  \/ /\ d \notin visited /\ tree.kust[d] = BadKustomization
     /\ visited' = Mark(d) /\ scanning' = "failed" /\ stack' = << >>
     /\ UNCHANGED count
  \/ /\ d \notin visited /\ Plain(d)
     /\ visited' = Mark(d) /\ Scan(d, rest)

(* ScanWithKustomize: each given directory, ...                            *)
ScanGiven ==
  /\ scanning = "follow" /\ stack = << >> /\ given < Len(tree.given)
  /\ given' = given + 1
  /\ LET d == tree.given[given + 1] IN
     \/ ~Plain(d) /\ scanKustomizeTree(d, << >>)
     \/ Plain(d) /\ Scan(d, << >>) /\ UNCHANGED visited
  /\ UNCHANGED tree

(* ... by what its kustomization lists: a directory is followed, a file    *)
(* read, or skipped when it cannot be.                                     *)
FollowDirectory ==
  /\ scanning \in {"follow", "look"} /\ stack # << >> /\ Top.on = "kust" /\ ~AtEnd
  /\ Entry \in Dir
  /\ scanKustomizeTree(Entry, Advanced)
  /\ UNCHANGED <<tree, given>>

ReadListed ==
  /\ scanning \in {"follow", "look"} /\ stack # << >> /\ Top.on = "kust" /\ ~AtEnd
  /\ Entry \notin Dir
  /\ count' = Classified({f \in {Entry} : Readable(f)})
  /\ stack' = Advanced
  /\ UNCHANGED <<tree, scanning, given, visited>>

Return ==
  /\ scanning \in {"follow", "look"} /\ stack # << >> /\ AtEnd
  /\ stack' = Tail(stack)
  /\ UNCHANGED <<tree, scanning, given, visited, count>>

(* Mutant: any manifest keeps the scan from looking further.               *)
hasResources == \E f \in File : count[f] > 0

hasCrossplaneResources == \E f \in File : count[f] > 0 /\ tree.kind[f] = "crossplane"

(* Nothing of Crossplane: the subdirectories of those given are looked     *)
(* into.                                                                   *)
AllFollowed ==
  /\ scanning = "follow" /\ stack = << >> /\ given = Len(tree.given)
  /\ \/ hasCrossplaneResources /\ scanning' = "done" /\ UNCHANGED given
     \/ ~hasCrossplaneResources /\ scanning' = "look" /\ given' = 0
  /\ UNCHANGED <<tree, stack, visited, count>>

LookInto ==
  /\ scanning = "look" /\ stack = << >> /\ given < Len(tree.given)
  /\ given' = given + 1
  /\ stack' = <<Frame("entries", tree.given[given + 1], 0)>>
  /\ UNCHANGED <<tree, scanning, visited, count>>

(* scanSubdirectories: a plain subdirectory is walked, and then looked     *)
(* into once more.                                                         *)
LookAtEntry ==
  /\ scanning = "look" /\ stack # << >> /\ Top.on = "entries" /\ ~AtEnd
  /\ \/ /\ Entry \notin Dir \/ Entry \in visited
        /\ stack' = Advanced
        /\ UNCHANGED <<scanning, visited, count>>
     \/ Entry \in Dir \ visited /\ ~Plain(Entry) /\ scanKustomizeTree(Entry, Advanced)
     \/ /\ Entry \in Dir \ visited /\ Plain(Entry)
        /\ Scan(Entry, <<Frame("entries", Entry, 0)>> \o Advanced)
        /\ UNCHANGED visited
  /\ UNCHANGED <<tree, given>>

AllLookedInto ==
  /\ scanning = "look" /\ stack = << >> /\ given = Len(tree.given)
  /\ scanning' = "done"
  /\ UNCHANGED <<tree, given, stack, visited, count>>

ScanNext ==
  \/ ScanGiven \/ FollowDirectory \/ ReadListed \/ Return
  \/ AllFollowed \/ LookInto \/ LookAtEntry \/ AllLookedInto

ScanSpec == ScanInit /\ [][ScanNext]_scanVars

-----------------------------------------------------------------------------
(* What a scan should find.                                                *)

(* The least set with the directories of start that leads nowhere else.    *)
LeadsTo(start, to) ==
  {d \in Dir :
     \A dirs \in SUBSET Dir :
       start \subseteq dirs /\ (\A e \in dirs : to[e] \subseteq dirs) => d \in dirs}

Listed == [d \in Dir |-> IF Plain(d) THEN {} ELSE ToSet(tree.kust[d]) \cap Dir]

Reachable(start) == LeadsTo(start, Listed)

(* The files a directory contributes itself, and all that start leads to.  *)
Contributes(d, f) == f \in (IF Plain(d) THEN FilesBelow[d] ELSE ToSet(tree.kust[d]))

Expected(start) ==
  {f \in File : Readable(f) /\ \E d \in Reachable(start) : Contributes(d, f)}

Given == ToSet(tree.given)
Subdirectories(d) == ToSet(Entries[d]) \cap Dir
Inner == [d \in Dir |-> IF d \in Given \/ Plain(d) THEN Subdirectories(d) ELSE {}]

Read == {f \in File : count[f] > 0}

(* A scan that succeeds has read what the kustomizations of the given      *)
(* directories lead to, however they refer to each other, and nothing else *)
(* as long as this holds a Crossplane manifest; otherwise also what their  *)
(* subdirectories lead to, and nothing that is neither below them nor      *)
(* listed on the way (kustomize.go:40-51, 62-160).                         *)
FindsTheManifests ==
  scanning = "done" =>
    IF \E f \in Expected(Given) : tree.kind[f] = "crossplane"
      THEN Read = Expected(Given)
      ELSE /\ Expected(Given \cup UNION {Subdirectories(d) : d \in Given}) \subseteq Read
           /\ Read \subseteq Expected(LeadsTo(Given, Inner))

(* Each occurrence of a file: with a given directory that has no           *)
(* kustomization, or at a place in a directory that is followed.           *)
PlacesGiven(f) ==
  {i \in 1 .. Len(tree.given) : Plain(tree.given[i]) /\ f \in FilesBelow[tree.given[i]]}

PlacesIn(d, f) ==
  IF Plain(d) THEN {i \in {0} : f \in FilesBelow[d]}
  ELSE {i \in 1 .. Len(tree.kust[d]) : tree.kust[d][i] = f}

Roots == {d \in Given : ~Plain(d)}

Occurrences(f) ==
  IF ~Readable(f) THEN {}
  ELSE {[given |-> i] : i \in PlacesGiven(f)}
       \cup UNION {{[dir |-> d, at |-> i] : i \in PlacesIn(d, f)} : d \in Reachable(Roots)}

(* A directory that several kustomizations refer to is read once: as long  *)
(* as nothing has to be discovered, a file is in the result as often as    *)
(* the directories followed list or hold it (kustomize.go:105-108).        *)
ReadsDirectoriesOnce ==
  scanning = "done" /\ (\E f \in Expected(Given) : tree.kind[f] = "crossplane") =>
    \A f \in File : count[f] = Cardinality(Occurrences(f))
=============================================================================
