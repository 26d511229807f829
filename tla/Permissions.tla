----------------------------- MODULE Permissions -----------------------------
(***************************************************************************)
(* The permission algebra of internal/perm: the levels, the catalog of     *)
(* GitHub App permission keys and the operations every other package       *)
(* builds its scope computations from.                                     *)
(*                                                                         *)
(* A Go map[string]string from permission keys to levels is a function on  *)
(* all of Key; a key the map does not hold is mapped to Absent.  A level   *)
(* string outside the table of levels, which GitHub may send, is Unknown.  *)
(***************************************************************************)
EXTENDS Integers

CONSTANTS Key,      \* every permission key that is written anywhere
          Catalog   \* the levels the generated table allows for each key

Level == {"read", "write", "admin"}
Unknown == "unknown"
Absent == "absent"

\* A key outside the generated table has no level at all.
ASSUME CatalogAssumption == Catalog \in [Key -> SUBSET Level]

Entry == Level \cup {Unknown, Absent}
PermissionMap == [Key -> Entry]
NoPermissions == [k \in Key |-> Absent]

Present(m) == {k \in Key : m[k] # Absent}
-----------------------------------------------------------------------------
(* read < write < admin; every other string has ordinal 0.                 *)
LevelOrd(l) == IF l = "read" THEN 1
               ELSE IF l = "write" THEN 2
               ELSE IF l = "admin" THEN 3 ELSE 0

ValidKey(k) == Catalog[k] # {}
ValidLevel(l) == l \in Level
ValidKeyLevel(k, l) == l \in Catalog[k]

\* Unknown keys and unknown levels are dropped, never interpreted.
\* (Seeded error: only the key is looked up.)
KeepsAnyLevel(m, k) == ValidKey(k)
Keeps(m, k) == ValidKey(k) /\ ValidLevel(m[k])
Normalize(m) == [k \in Key |-> IF Keeps(m, k) THEN m[k] ELSE Absent]

\* (Seeded error: the comparison of the minimum is turned around.)
Highest(levels) ==
    CHOOSE l \in levels : \A o \in levels : LevelOrd(l) >= LevelOrd(o)
Lowest(levels) ==
    CHOOSE l \in levels : \A o \in levels : LevelOrd(l) <= LevelOrd(o)

(* The per-key minimum.  The order and the repetition of the inputs do not *)
(* matter to the loop of the code, so the inputs are a set.                *)
Intersect(inputs) ==
    [k \in Key |->
        IF inputs # {} /\ \A m \in inputs : Normalize(m)[k] # Absent
        THEN Lowest({Normalize(m)[k] : m \in inputs})
        ELSE Absent]

\* (Seeded error: the key is there, its level is not compared.)
SufficesByKey(granted, required) == granted # Absent
Suffices(granted, required) ==
    granted # Absent /\ LevelOrd(granted) >= LevelOrd(required)

Satisfies(required, granted) ==
    \A k \in Present(Normalize(required)) :
        Suffices(Normalize(granted)[k], Normalize(required)[k])

\* Gaps reports a key that is missing or too low; the wording is left out.
\* (Seeded errors: an equal level is a gap; a low level is none.)
Missing(level) == level = Absent
NotHigher(level, required) == LevelOrd(level) <= LevelOrd(required)
NeverTooLow(level, required) == level \notin Entry
TooLow(level, required) == LevelOrd(level) < LevelOrd(required)

Gaps(required, granted) ==
    {k \in Present(Normalize(required)) :
        \/ Missing(Normalize(granted)[k])
        \/ TooLow(Normalize(granted)[k], Normalize(required)[k])}
-----------------------------------------------------------------------------
(* The policy engine's use of the algebra (internal/policy/engine.go).     *)

\* mergePermissions asks Satisfies({key: existing}, {key: level}).
\* (Seeded error: the first policy to grant a key fixes its level.)
RaisesOnlyAbsent(existing, level) == existing = Absent
Raises(existing, level) ==
    existing = Absent \/ LevelOrd(level) >= LevelOrd(existing)

MergePermissions(destination, source) ==
    [k \in Key |->
        IF k \in Present(Normalize(source)) /\ Raises(destination[k], source[k])
        THEN source[k]
        ELSE destination[k]]

\* A request that names anything unknown is not covered by any grant.
CoversPermissions(required, granted) ==
    Present(Normalize(required)) = Present(required) /\ Satisfies(required, granted)
==============================================================================
