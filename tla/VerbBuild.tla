------------------------------ MODULE VerbBuild ------------------------------
(***************************************************************************)
(* verb build of src/main.rs: one program compiled to an executable for    *)
(* the host, for one target or for all six, with the temporary objects of  *)
(* the runtime units it needs.  The objects have fixed names, one for each *)
(* unit and process, so the targets of one build write the same files.     *)
(*                                                                         *)
(* Compilers and linker are other processes: each may fail.  A failed      *)
(* compiler leaves its output file as it was.                              *)
(***************************************************************************)
EXTENDS Naturals, SequencesExt

CONSTANTS
  AllTargets,   \* targets::ALL, in its order
  Windows,      \* the targets whose os is windows
  Spellings,    \* what may stand before the = of -L<...>=<dir>
  Canonical,    \* the target each spelling that parses names
  LArguments,   \* the -L arguments: <<prefix, dir>>, prefix "" without an =
  Subdirs       \* <<dir, target>>: dir has a subdirectory with the target's label

BuildAssumption ==
  /\ AllTargets \in Seq(ToSet(AllTargets))
  /\ IsInjective(AllTargets)
  /\ "host" \notin ToSet(AllTargets)
  /\ Windows \subseteq ToSet(AllTargets)
  /\ DOMAIN Canonical \subseteq Spellings
  /\ \A s \in DOMAIN Canonical : Canonical[s] \in ToSet(AllTargets)
  /\ \A k \in DOMAIN LArguments : LArguments[k][1] \in Spellings \cup {""}

ASSUME BuildAssumption

VARIABLES
  command,   \* "host", "cross" for one target, or "all"
  std,       \* the std modules the program imports
  todo,      \* the targets still to build, the one being built first
  stage,     \* the next stage of that build
  temps,     \* the temporary objects on temps: the target each was made for
  linked,    \* the links that succeeded: target, objects, directories
  results,   \* of each target built: whether it succeeded
  exit       \* "no", then the exit status

buildVars == <<command, std, todo, stage, temps, linked, results, exit>>

Host == "host"
Unit == {"io", "net", "map", "thread", "time"}
Stages == <<"emit", "io", "net", "map", "thread", "time", "link">>

\* verb_map.cpp is part of every build.
Wanted(u) == u = "map" \/ u \in std

\* The objects of a build: the program's, named after its output, and units.
Program(t) == <<"program", t>>
Needed(t) == {Program(t)} \cup {<<"unit", u>> : u \in {v \in Unit : Wanted(v)}}

BuildInit ==
  /\ command \in {"host", "cross", "all"}
  /\ std \in SUBSET {"io", "net", "map", "thread", "time"}
  /\ todo \in CASE command = "host" -> {<<Host>>}
                [] command = "all" -> {AllTargets}
                [] command = "cross" -> {<<t>> : t \in ToSet(AllTargets)}
  /\ stage = 1
  /\ temps = [f \in {} |-> Host]
  /\ linked = {}
  /\ results = <<>>
  /\ exit = "no"

Target == Head(todo)
Building(s) == exit = "no" /\ todo # <<>> /\ Stages[stage] = s

\* Std modules that no Windows target has.
Unsupported == Target \in Windows /\ std \cap {"io", "net", "thread"} # {}

Without(files) == Restrict(temps, DOMAIN temps \ files)
WithFile(f) == [x \in DOMAIN temps \cup {f} |-> IF x = f THEN Target ELSE temps[x]]

\* A build of --target all goes on with the next target; any other exits.
Ended(ok) ==
  /\ results' = Append(results, [target |-> Target, ok |-> ok])
  /\ todo' = Tail(todo)
  /\ stage' = 1
  /\ exit' = IF Len(todo) > 1 THEN "no"
             ELSE IF \A r \in ToSet(results') : r.ok THEN "0" ELSE "1"
  /\ UNCHANGED <<command, std>>

GoOn == stage' = stage + 1 /\ UNCHANGED <<command, std, todo, linked, results, exit>>

RejectTarget ==
  /\ Building("emit")
  /\ Unsupported
  /\ Ended(FALSE)
  /\ UNCHANGED <<temps, linked>>

Emit ==
  /\ Building("emit")
  /\ ~Unsupported
  /\ temps' = WithFile(Program(Target))
  /\ GoOn

\* The target machine, the optimiser or the object emission fails.
EmitFails ==
  /\ Building("emit")
  /\ ~Unsupported
  /\ Ended(FALSE)
  /\ UNCHANGED <<temps, linked>>

SkipUnit(u) ==
  /\ Building(u)
  /\ ~Wanted(u)
  /\ UNCHANGED temps
  /\ GoOn

CompileUnit(u) ==
  /\ Building(u)
  /\ Wanted(u)
  /\ temps' = WithFile(<<"unit", u>>)
  /\ GoOn

\* Mutated: only the program's object is removed.
ProgramOnly(u) == {Program(Host)}

\* What a build for the host removes before it exits: the units compiled so
\* far, but not net's once map's is there.
HostRemoves(u) ==
  {Program(Host)} \cup {<<"unit", v>> :
    v \in CASE u = "io" -> {}
            [] u = "net" -> {"io"}
            [] u = "map" -> {"io", "net"}
            [] u = "thread" -> {"io", "map"}
            [] u = "time" -> {"io", "map", "thread"}}

\* Mutated: the failure of a compiler is not looked at.
CompileFailureIgnored(u) ==
  /\ Building(u)
  /\ Wanted(u)
  /\ UNCHANGED temps
  /\ GoOn

\* A build for another target leaves what it has made.
CompileFails(u) ==
  /\ Building(u)
  /\ Wanted(u)
  /\ temps' = IF command = "host" THEN Without(HostRemoves(u)) ELSE temps
  /\ Ended(FALSE)
  /\ UNCHANGED linked

(***************************************************************************)
(* -L<dir> and -L<target>=<dir>.                                           *)
(***************************************************************************)
\* Target::parse of the prefix.
IsScoped(a) == a[1] \in DOMAIN Canonical

\* The order of the arguments, in which the linker searches, is left out.
Global == {a \in ToSet(LArguments) : ~IsScoped(a)}
Scoped(t) == {a \in ToSet(LArguments) : IsScoped(a) /\ Canonical[a[1]] = t}

\* Target::resolve_lib_dirs: the directory, or its part for the target.
ForTarget(a, t) == <<a[2], IF <<a[2], t>> \in Subdirs THEN t ELSE "all">>

\* The host has no label of its own here.
LibDirs(t) ==
  IF t = Host THEN {<<a[2], "all">> : a \in Global}
  ELSE {ForTarget(a, t) : a \in Global \cup Scoped(t)}

Link ==
  /\ Building("link")
  /\ linked' = linked \cup
       {[target |-> Target, dirs |-> LibDirs(Target),
         objects |-> {<<f, IF f \in DOMAIN temps THEN temps[f] ELSE "missing">>
                        : f \in Needed(Target)}]}
  /\ temps' = Without(Needed(Target))
  /\ Ended(TRUE)

LinkFails ==
  /\ Building("link")
  /\ temps' = Without(Needed(Target))
  /\ Ended(FALSE)
  /\ UNCHANGED linked

\* The linker cannot be started: only a build for the host cleans up.
LinkerMissing ==
  /\ Building("link")
  /\ temps' = IF command = "host" THEN Without(Needed(Target)) ELSE temps
  /\ Ended(FALSE)
  /\ UNCHANGED linked

BuildNext ==
  \/ RejectTarget \/ Emit \/ EmitFails
  \/ \E u \in Unit : SkipUnit(u) \/ CompileUnit(u) \/ CompileFails(u)
  \/ Link \/ LinkFails \/ LinkerMissing

BuildSpec == BuildInit /\ [][BuildNext]_buildVars

(***************************************************************************)
(* What a build promises.                                                  *)
(***************************************************************************)
\* An executable is linked from exactly the objects its program needs, each
\* made for its own target in this build, although an earlier target that
\* failed may have left objects under the same names; and the libraries are
\* searched in exactly the directories given for its target or for all.
LinkFresh ==
  \A l \in linked :
    /\ l.objects = {<<f, l.target>> : f \in Needed(l.target)}
    /\ {d[1] : d \in l.dirs} =
         {a[2] : a \in {b \in ToSet(LArguments) :
                          b[1] \in DOMAIN Canonical => Canonical[b[1]] = l.target}}

\* The exit status is 0 exactly if every target asked for was linked; then,
\* and after a build for the host that failed before std thread, no
\* temporary object is left.  What else is left belongs to a target that
\* failed.
ExitHonest ==
  /\ exit # "no" =>
       /\ exit = "0" <=> \A r \in ToSet(results) : \E l \in linked : l.target = r.target
       /\ exit = "0" => temps = [f \in {} |-> Host]
       /\ command = "all" => {r.target : r \in ToSet(results)} = ToSet(AllTargets)
       /\ command = "host" => DOMAIN temps \subseteq {<<"unit", "net">>}
  /\ \A f \in DOMAIN temps :
       \/ todo # <<>> /\ temps[f] = Target
       \/ \E r \in ToSet(results) : ~r.ok /\ r.target = temps[f]
=============================================================================
