-------------------------- MODULE MCSettingsStore --------------------------
(***************************************************************************)
(* Small instances of SettingsStore.                                       *)
(***************************************************************************)
EXTENDS SettingsStore, TLC

CONSTANTS s1, s2, x, y, z

(* Changes of one setting and of two. *)
SomeChanges == {("mode" :> 1), ("wait" :> 1), ("wait" :> 3 @@ "poll" :> 3)}

SomeWrites == {(s1 :> 1), (s1 :> None), (s1 :> 2 @@ s2 :> Invalid), (s1 :> 2 @@ s2 :> 1)}

(* Nothing; a wait shorter than the poll interval that may be stored; and  *)
(* a secret.                                                               *)
SomeEnvironments == {[k \in {} |-> 0], ("wait" :> 2), (s1 :> 1)}

Interchangeable == Permutations(Requests)
=============================================================================
