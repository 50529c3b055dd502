---------------------------- MODULE MCStoreParity ----------------------------
(***************************************************************************)
(* One key to a label and two entities; attributes that leave the key of   *)
(* the node they describe alone.                                           *)
(***************************************************************************)
EXTENDS StoreParity, TLC

Setting(prop, v) == [p \in Property |-> IF p = prop THEN v ELSE Unset]

NoteAttributes == {Setting("note", v) : v \in Note \cup {Unset}}

\* A metric may carry the uid of something else: no key of its own.
KeysAlone == [l \in FreeLabel |->
    NoteAttributes \cup IF l = "Metric" THEN {Setting("uid", u) : u \in Uid} ELSE {}]

\* Nothing tells two entities or two roles apart.
Interchangeable == Permutations(Uid) \cup Permutations(Role)
==============================================================================
