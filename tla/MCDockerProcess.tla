-------------------------- MODULE MCDockerProcess --------------------------
(* Instances of DockerProcess for TLC: callers are model values.           *)
EXTENDS DockerProcess, TLC

\* Callers are interchangeable: no action or property names one.
Symmetry == Permutations(Callers)
=============================================================================
