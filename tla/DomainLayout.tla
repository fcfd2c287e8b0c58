---------------------------- MODULE DomainLayout ----------------------------
(***************************************************************************)
(* The module roles of a domain package (check_layout in                   *)
(* app/validation.py): which file may import what.  A layout is the set of *)
(* <<file, target>> pairs of its import statements; what a target is       *)
(* called is left out, only its kind counts.                               *)
(***************************************************************************)

\* The files of domains/<name>/: `nested` stands for those in directories below it.
Files == {"__init__", "environment", "model", "types", "nested"}

\* The modules outside that a file may name: `package` is domains.<name> itself, `never` the
\* backends that no line of the import guard can exempt.
Outside ==
  {"package", "stdlib", "shared", "third_party", "domains", "composition", "backend",
   "never", "dynamic"}

Targets == Files \cup Outside

Composes(file) == file = "__init__"
Binds(file)    == file = "environment"
Symbolic       == Files \ {"__init__", "environment"}

\* Mutant: the environment is a sibling like any other.
SiblingFreely(file, target) ==
  CASE target = "nested" -> TRUE
    [] target = "model"  -> Binds(file)
    [] OTHER             -> FALSE

\* A sibling outside the top directory is no sibling to the check; the environment must not
\* know the model, nor anything else the environment.
SiblingBanned(file, target) ==
  CASE target = "nested"      -> TRUE
    [] target = "model"       -> Binds(file)
    [] target = "environment" -> ~Binds(file)
    [] OTHER                  -> FALSE

Banned(file, target) ==
  \/ target \in {"dynamic", "never"}
  \/ target = "backend" /\ ~Binds(file)
  \/ /\ ~Composes(file)
     /\ \/ target \in {"composition", "package", "domains"}
        \/ target = "third_party" /\ ~Binds(file)
        \/ target \in Files /\ SiblingBanned(file, target)

Problems(layout) == {x \in layout : Banned(x[1], x[2])}

\* An environment that imports a backend needs a line in the import guard.
NeedsDoor(layout) == <<"environment", "backend">> \in layout

\* The modules seen and what they import.
Further(layout, seen) == seen \cup {x[2] : x \in {y \in layout : y[1] \in seen}}

\* What importing a file brings in, directly or through the package's other files.
Brings(layout, file) ==
  LET once == Further(layout, Further(layout, {file}))
  IN  Further(layout, Further(layout, once)) \ {file}

=============================================================================
