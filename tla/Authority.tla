------------------------------ MODULE Authority ------------------------------
(***************************************************************************)
(* What a permission map means, independently of how the code computes     *)
(* with it: the set of <<key, level>> pairs its holder may exercise.  A    *)
(* level includes the levels below it; an unknown key or level gives       *)
(* nothing.  The specifications that say what a component promises are     *)
(* written with this set, the ones that follow the code never use it.      *)
(***************************************************************************)
EXTENDS Permissions

Includes(l) == {o \in Level : \/ l = "admin"
                              \/ l = "write" /\ o # "admin"
                              \/ l = "read" /\ o = "read"}

Authority(m) ==
    {kl \in Key \X Level : Catalog[kl[1]] # {} /\ kl[2] \in Includes(m[kl[1]])}
==============================================================================
