--------------------------- MODULE NamespaceLedger ---------------------------
(***************************************************************************)
(* What a project's ledger says of its namespaces.                         *)
(***************************************************************************)
EXTENDS NamespaceController

Counts(p, c) == Total(projects[p].nss, namespaces, c)

(* The name of every namespace of p was given to one namespace only, and   *)
(* none is that of p.                                                      *)
NamedOnce(p) ==
    /\ \A n \in Namespaces : ProjectOf[n] = p => namespaces[n].uid <= 1
    /\ Unmistaken(p)

(* While no quota is edited a ledger never says less than what its         *)
(* namespaces hold, whatever fails: it errs on the safe side.  (Who takes  *)
(* over the ledger entry of a removed namespace of the same name may have  *)
(* asked for more.)                                                        *)
LedgerCovers ==
    edits = 0 =>
        \A p \in Projects : NamedOnce(p) =>
            \A c \in Clusters : At(projects[p].used, c) >= Counts(p, c)

(* The ledger is what the namespaces hold: "the resource usage of each     *)
(* cluster".                                                               *)
NsLedgerExact ==
    edits = 0 => \A p \in Projects : \A c \in Clusters : At(projects[p].used, c) = Counts(p, c)
==============================================================================
