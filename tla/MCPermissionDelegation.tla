---------------------- MODULE MCPermissionDelegation ----------------------
(***************************************************************************)
(* Values for the constants of PermissionDelegation: an owner, managers    *)
(* amy and bob, a worker; one or two modules with one action each.         *)
(***************************************************************************)
EXTENDS PermissionDelegation

MCLevel ==
    [u \in Users |-> CASE u = "owner" -> "OWNER"
                       [] u = "worker" -> "WORKER"
                       [] OTHER -> "MANAGER"]

\* The rows initializeOwnerPermissions creates, and nothing else.
OwnerRows ==
    [u \in Users |-> [m \in Modules |-> IF u = "owner" THEN Granted(Actions, "owner")
                                                       ELSE Absent]]

\* Every list of a grant over the modules, each module with all actions or none.
FullOrEmpty == UNION {[S -> {{}, Actions}] : S \in SUBSET Modules \ {{}}}

\* The same, or reading alone: lists of which one narrows the other.
SomeOrAll == UNION {[S -> {{"read"}, Actions}] : S \in SUBSET Modules \ {{}}}

\* Handlers are interchangeable: no definition orders them.
HandlerSymmetry == Permutations(Procs)

=============================================================================
