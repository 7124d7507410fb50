------------------------------- MODULE Presets -------------------------------
(***************************************************************************)
(* The PTZ presets: SavePreset and DeletePreset of the PTZ controller      *)
(* (src/internal/onvif/ptz.go), as the REST API and MCP call them and as   *)
(* ONVIF SetPreset and RemovePreset do, with checks of their own           *)
(* (src/internal/onvif/ptz_service.go).                                    *)
(*                                                                         *)
(* The list lives in the configuration, each access to which is atomic; a  *)
(* call reads it, computes, and writes it back, without a lock in between. *)
(*                                                                         *)
(* A name is a number: n stands for "Preset_n", the name generated for the *)
(* n-th preset, and 0 for the empty name.  Another name would behave like  *)
(* a number that is never generated.                                       *)
(***************************************************************************)
EXTENDS Lists

CONSTANTS
  Caller,      \* concurrent requests
  MaxName,     \* names are 1 .. MaxName; none beyond is generated
  Position,    \* camera positions
  MaxPresets   \* ptzMaximumPresetCount

ASSUME PresetsAssumption ==
  /\ MaxName \in Nat /\ MaxPresets \in Nat
  /\ Position # {}

Name == 1 .. MaxName
Unnamed == 0
Unread == 0
Preset == [name : Name, pos : Position]

VARIABLES
  presets,  \* cfg.PTZ.Presets
  camera,   \* the current position
  step,     \* step[c]: what request c does next
  name,     \* name[c]: the name it works on
  read,     \* read[c]: the list it has read
  saved,    \* saved[c]: the name its save goes under
  at        \* at[c]: the position it has read

requestVars == <<step, name, read, saved, at>>
presetsVars == <<presets, camera, requestVars>>

Operations == {"save", "delete", "setPreset", "removePreset", "reset"}
Steps == Operations \cup {"idle", "savePreset", "getStatus", "writeSave", "writeDelete"}

Names(list) == {list[i].name : i \in DOMAIN list}

\* Mutant: a preset with the name of another one is appended all the same.
Put_Append(list, p) == Append(list, p)

\* The preset with the same name is overwritten, a new one goes last.
Put(list, p) ==
  IF p.name \in Names(list)
  THEN [i \in DOMAIN list |-> IF list[i].name = p.name THEN p ELSE list[i]]
  ELSE Append(list, p)

\* Mutant: keeps only what should go.
Without_Only(list, n) == Selected(list, {i \in DOMAIN list : list[i].name = n})

Without(list, n) == Selected(list, {i \in DOMAIN list : list[i].name # n})

Goto(c, s) == step' = [step EXCEPT ![c] = s]

PresetsInit ==
  /\ presets = <<>>
  /\ camera \in Position
  /\ step = [c \in Caller |-> "idle"]
  /\ name = [c \in Caller |-> Unnamed]
  /\ read = [c \in Caller |-> <<>>]
  /\ saved = [c \in Caller |-> Unnamed]
  /\ at = [c \in Caller |-> Unread]

\* The request is answered; what it had in its local variables is gone.
Return(c) ==
  /\ Goto(c, "idle")
  /\ name' = [name EXCEPT ![c] = Unnamed]
  /\ saved' = [saved EXCEPT ![c] = Unnamed]
  /\ read' = [read EXCEPT ![c] = <<>>]
  /\ at' = [at EXCEPT ![c] = Unread]

\* A request comes in: a save, delete or factory reset of the REST API or MCP, or
\* ONVIF SetPreset or RemovePreset.
Request(c, op, n) ==
  /\ step[c] = "idle"
  /\ Goto(c, op)
  /\ name' = [name EXCEPT ![c] = n]
  /\ UNCHANGED <<presets, camera, read, saved, at>>

-----------------------------------------------------------------------------
(* Saving.                                                                 *)

\* SavePreset reads the list, and generates a name if it has none, ...
SavePreset(c) ==
  LET n == IF name[c] = Unnamed THEN Len(presets) + 1 ELSE name[c] IN
  /\ n \in Name
  /\ read' = [read EXCEPT ![c] = presets]
  /\ saved' = [saved EXCEPT ![c] = n]
  /\ Goto(c, "getStatus")
  /\ UNCHANGED <<presets, camera, name, at>>

Save(c) == step[c] = "save" /\ SavePreset(c)

\* HandleSetPreset reads the list too, to refuse a new preset when it is full.
SetPreset(c) ==
  LET isNew == name[c] \notin Names(presets)
      full  == isNew /\ Len(presets) >= MaxPresets
  IN
  /\ step[c] = "setPreset"
  /\ \/ full /\ Return(c)
     \/ ~full /\ Goto(c, "savePreset") /\ UNCHANGED <<name, read, saved, at>>
  /\ UNCHANGED <<presets, camera>>

SetPresetSave(c) == step[c] = "savePreset" /\ SavePreset(c)

\* ... then the position, ...
GetStatus(c) ==
  /\ step[c] = "getStatus"
  /\ at' = [at EXCEPT ![c] = camera]
  /\ Goto(c, "writeSave")
  /\ UNCHANGED <<presets, camera, name, read, saved>>

\* ... and stores the list with its preset in it.
WriteSave(c) ==
  /\ step[c] = "writeSave"
  /\ presets' = Put(read[c], [name |-> saved[c], pos |-> at[c]])
  /\ Return(c)
  /\ UNCHANGED camera

-----------------------------------------------------------------------------
(* Removing.                                                               *)

\* HandleRemovePreset refuses an unknown token.
RemovePreset(c) ==
  /\ step[c] = "removePreset"
  /\ \/ name[c] \notin Names(presets) /\ Return(c)
     \/ name[c] \in Names(presets) /\ Goto(c, "delete") /\ UNCHANGED <<name, read, saved, at>>
  /\ UNCHANGED <<presets, camera>>

Delete(c) ==
  /\ step[c] = "delete"
  /\ read' = [read EXCEPT ![c] = presets]
  /\ Goto(c, "writeDelete")
  /\ UNCHANGED <<presets, camera, name, saved, at>>

WriteDelete(c) ==
  /\ step[c] = "writeDelete"
  /\ presets' = Without(read[c], name[c])
  /\ Return(c)
  /\ UNCHANGED camera

\* A factory reset brings back the default configuration, which has no preset.
ResetToDefaults(c) ==
  /\ step[c] = "reset"
  /\ presets' = <<>>
  /\ Return(c)
  /\ UNCHANGED camera

MoveCamera ==
  /\ camera' \in Position
  /\ UNCHANGED <<presets, requestVars>>

-----------------------------------------------------------------------------

PresetsNext ==
  \/ \E c \in Caller :
       \/ \E op \in Operations, n \in Name \cup {Unnamed} : Request(c, op, n)
       \/ Save(c) \/ SetPreset(c) \/ SetPresetSave(c) \/ GetStatus(c) \/ WriteSave(c)
       \/ RemovePreset(c) \/ Delete(c) \/ WriteDelete(c) \/ ResetToDefaults(c)
  \/ MoveCamera

PresetsSpec == PresetsInit /\ [][PresetsNext]_presetsVars

-----------------------------------------------------------------------------
(* Properties.                                                             *)

PresetsTypeOK ==
  /\ presets \in Seq(Preset) /\ camera \in Position
  /\ step \in [Caller -> Steps]
  /\ name \in [Caller -> Name \cup {Unnamed}]
  /\ read \in [Caller -> Seq(Preset)]
  /\ saved \in [Caller -> Name \cup {Unnamed}]
  /\ at \in [Caller -> Position \cup {Unread}]

UniqueNames(list) == \A i, j \in DOMAIN list : list[i].name = list[j].name => i = j

\* Names double as ONVIF tokens: no race of saves and removals makes two presets
\* with one name.
NamesUnique == UniqueNames(presets)

\* The presets as a book of positions.
Entry(list, n) ==
  IF n \in Names(list) THEN list[CHOOSE i \in DOMAIN list : list[i].name = n].pos ELSE Unnamed

BookOf(list) == [n \in Name |-> Entry(list, n)]
BookOfPresets == BookOf(presets)

Book == INSTANCE PresetBook WITH Pos <- Position, Unset <- Unnamed, book <- BookOfPresets

Writes(c, kind) == step[c] = kind /\ step'[c] = "idle"

\* A write replaces a list that has changed since the request read it.
Overtaken ==
  \E c \in Caller :
    (Writes(c, "writeSave") \/ Writes(c, "writeDelete")) /\ read[c] # presets

\* Requests that do not overtake one another keep the book: a save writes the
\* entry of its name and no other, a removal erases the one it names, whatever
\* else is under way.
ImplementsPresetBook ==
  [][\/ Overtaken
     \/ /\ Book!Next \/ UNCHANGED BookOfPresets
        /\ \A c \in Caller :
             /\ Writes(c, "writeSave") => Book!Save(saved[c], at[c])
             /\ Writes(c, "writeDelete") /\ name[c] \in Name => Book!Erase(name[c])]_presetsVars

-----------------------------------------------------------------------------
(* The inductive invariant.                                                *)

\* A request that is about to write has read what it writes: a list without
\* duplicates, a name, a position.
RequestsInv ==
  \A c \in Caller :
    /\ UniqueNames(read[c])
    /\ step[c] \in {"getStatus", "writeSave"} => saved[c] \in Name
    /\ step[c] = "writeSave" => at[c] \in Position

PresetsInv == PresetsTypeOK /\ NamesUnique /\ RequestsInv

=============================================================================
