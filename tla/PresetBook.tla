------------------------------ MODULE PresetBook ------------------------------
(***************************************************************************)
(* What the clients of the PTZ presets may rely on: a book of positions    *)
(* under names, in which a save writes one entry, a removal erases one,    *)
(* and a factory reset erases all.                                         *)
(***************************************************************************)
CONSTANTS Name, Pos, Unset

VARIABLE book   \* the position saved under each name, or Unset

Init == book \in [Name -> Pos \cup {Unset}]

Save(n, p) == book' = [book EXCEPT ![n] = p]
Erase(n)   == book' = [book EXCEPT ![n] = Unset]
Clear      == book' = [n \in Name |-> Unset]

Next ==
  \/ \E n \in Name : Erase(n) \/ \E p \in Pos : Save(n, p)
  \/ Clear

Spec == Init /\ [][Next]_book

=============================================================================
