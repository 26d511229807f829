-------------------------- MODULE MCPermissionLaws ---------------------------
EXTENDS PermissionLaws

\* A key of the catalog with every level, one that GitHub limits to read and
\* write, and one that the generated table does not hold.
MCCatalog == [k \in Key |->
    CASE k = "administration" -> Level
      [] k = "contents" -> {"read", "write"}
      [] OTHER -> {}]
==============================================================================
