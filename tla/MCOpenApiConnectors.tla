-------------------------- MODULE MCOpenApiConnectors --------------------------
(* A document for each operation, so that an import always removes one.    *)
EXTENDS OpenApiConnectors, TLC

Documents == {{x} : x \in Operation}
Symmetry == Permutations(Request) \cup Permutations(Operation)
=================================================================================
