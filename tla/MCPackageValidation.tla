------------------------ MODULE MCPackageValidation ------------------------
EXTENDS PackageValidation

\* The packages with at most two deviations from a sound one, with and without what is
\* optional, and those whose layout has at most two imports.
Deviations == UNION {{<<f, v>> : v \in Shapes[f]} : f \in DOMAIN Shapes}

Bare == [Sound EXCEPT !.comparator = "none", !.reasoning = "none", !.recovery = "none",
                      !.ungrounded = "none", !.inapplicable = "none"]

Deviating ==
  {[base EXCEPT ![d[1]] = d[2], ![e[1]] = e[2]] :
     base \in {Sound, Bare}, d \in Deviations, e \in Deviations}

LaidOut ==
  {[Sound EXCEPT !.layout = {x, y}, !.door = d] :
     x \in Files \X Targets, y \in Files \X Targets, d \in {"listed", "unlisted", "garbled"}}

\* DomainPackage refuses a reasoning track without a comparator; without a track there is no
\* episode with it.
MCPackages ==
  {p \in Deviating \cup LaidOut :
     IF p.reasoning = "none" THEN p.tracked = "ended" ELSE p.comparator # "none"}

=============================================================================
