----------------------------- MODULE MCInitrdFs -----------------------------
(* Small instances of InitrdFs for TLC. *)
EXTENDS InitrdFs

CONSTANT MaxEntries   \* the longest archive looked at

(* Names of which one starts with another. *)
Names == {<<"a">>, <<"a", "b">>}
EntryChoice(i) ==
  {e \in [parent : 0..(i - 1), type : {"directory", "regular"}, name : Names, size : {0, 2}] :
     e.type = "directory" <=> e.size = 0}
(* All archives of up to MaxEntries entries that jax could have written. *)
AllArchives ==
  LET of[n \in 0..MaxEntries] ==
        IF n = 0 THEN {<<>>} ELSE {r \o <<e>> : r \in of[n - 1], e \in EntryChoice(n)}
  IN  {r \in UNION {of[n] : n \in 0..MaxEntries} : IsArchive(r)}

(* The state without the last message, which no step reads. *)
LiveState == <<archive, node, walks>>
=============================================================================
