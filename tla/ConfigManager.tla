---------------------------- MODULE ConfigManager ----------------------------
(***************************************************************************)
(* The configuration manager (src/internal/config/config.go) and the life  *)
(* of settings.json across starts, saves, failed writes, crashes and       *)
(* shutdowns (src/cmd/mockcam/main.go).                                    *)
(*                                                                         *)
(* A change and its save hold m.mu together, so a save is one holder of    *)
(* the mutex that goes through os.WriteFile: open and truncate, then       *)
(* write.  The calls of the REST API and MCP change the settings; the      *)
(* goroutines that persist the PTZ position leave them alone but write the *)
(* same file.                                                              *)
(*                                                                         *)
(* The configuration is a value standing for the user's settings, and the  *)
(* firmware version it reports.                                            *)
(***************************************************************************)
EXTENDS Naturals

CONSTANTS
  Setting,    \* what a user can configure
  Factory,    \* DefaultConfig()
  Release,    \* versions of the program (AppVersion)
  Crashes,    \* when the process may be killed: "never", "betweenWrites", "anywhere"
  IOFails,    \* whether opening or writing the file may fail
  MaxAsync    \* bound: PTZ goroutines waiting for m.mu

ASSUME ConfigAssumption ==
  /\ Factory \in Setting /\ Release # {}
  /\ Crashes \in {"never", "betweenWrites", "anywhere"}
  /\ IOFails \in BOOLEAN /\ MaxAsync \in Nat

VARIABLES
  phase,     \* of the process; "saved": main has made its last save
  release,   \* the version that runs
  mem,       \* m.cfg
  file,      \* settings.json: "missing", "empty", "torn" or "whole"
  disk,      \* its content when it is whole
  saver,     \* who holds m.mu and saves, or "none"
  opened,    \* the saver has truncated the file
  async,     \* PTZ goroutines waiting for m.mu
  lastOk,    \* history: the last save succeeded
  acked,     \* history: the settings last reported as saved, if any
  later      \* history: settings that came into memory since then

managerVars == <<phase, release, mem, file, disk, saver, opened, async, lastOk, acked, later>>
historyVars == <<lastOk, acked, later>>

Config == [set : Setting, fw : Release]
Defaults == [set |-> Factory, fw |-> release]

ManagerInit ==
  /\ phase = "down" /\ release \in Release
  /\ mem \in Config /\ disk = mem
  /\ file \in {"missing", "empty", "whole"}
  /\ saver = "none" /\ opened = FALSE /\ async = 0
  /\ lastOk = FALSE /\ later = {}
  /\ acked = IF file = "whole" THEN {disk.set} ELSE {}

-----------------------------------------------------------------------------
(* Starting: main() calls NewManager.                                      *)

Start(r) ==
  /\ phase = "down"
  /\ phase' = "loading" /\ release' = r
  /\ UNCHANGED <<mem, file, disk, saver, opened, async, historyVars>>

\* A missing or empty file is replaced by the defaults.
LoadAbsent ==
  /\ phase = "loading" /\ saver = "none"
  /\ file \in {"missing", "empty"}
  /\ mem' = Defaults /\ later' = later \cup {Factory}
  /\ saver' = "init"
  /\ UNCHANGED <<phase, release, file, disk, opened, async, lastOk, acked>>

\* JSON that does not parse: log.Fatalf.
LoadTorn ==
  /\ phase = "loading" /\ saver = "none" /\ file = "torn"
  /\ phase' = "down"
  /\ UNCHANGED <<release, mem, file, disk, saver, opened, async, historyVars>>

\* m.cfg is set last, when NewManager returns; nobody can see it before.  A
\* file of another release gets the version of this one and is written back.
LoadFile ==
  /\ phase = "loading" /\ saver = "none" /\ file = "whole"
  /\ mem' = [disk EXCEPT !.fw = release]
  /\ IF disk.fw = release
     THEN phase' = "run" /\ lastOk' = TRUE /\ UNCHANGED saver
     ELSE saver' = "sync" /\ UNCHANGED <<phase, lastOk>>
  /\ UNCHANGED <<release, file, disk, opened, async, acked, later>>

-----------------------------------------------------------------------------
(* Changes.                                                                *)

\* A change made by a call of the REST API or of MCP.  The shutdown waits for the
\* first for two seconds only and for the second not at all.
Change(new) ==
  /\ phase \in {"run", "closing", "saved"} /\ saver = "none"
  /\ mem' = new /\ later' = later \cup {new.set}
  /\ saver' = "call"
  /\ UNCHANGED <<phase, release, file, disk, opened, async, lastOk, acked>>

\* The client sends the whole server section, firmware version included.
UpdateServerConfig == \E new \in Config : Change(new)

\* UpdateProfile, AddProfile, DeleteProfile and UpdatePTZPresets.
ChangeList == \E set \in Setting : Change([mem EXCEPT !.set = set])

ResetToDefaults == Change(Defaults)

\* A PTZ move starts a goroutine that will persist the position: from the REST
\* API, and from WebSockets and the continuous move, which no shutdown stops.
Move ==
  /\ phase \in {"run", "closing", "saved"} /\ async < MaxAsync
  /\ async' = async + 1
  /\ UNCHANGED <<phase, release, mem, file, disk, saver, opened, historyVars>>

UpdatePTZ ==
  /\ phase \in {"run", "closing", "saved"} /\ saver = "none" /\ async > 0
  /\ saver' = "async" /\ async' = async - 1
  /\ UNCHANGED <<phase, release, mem, file, disk, opened, historyVars>>

-----------------------------------------------------------------------------
(* saveLocked and the writes of loadOrInit.                                *)

\* The save ends.  A first configuration that cannot be written is fatal; the
\* errors of the version sync and of the PTZ goroutines are dropped.
SaveEnds(ok) ==
  LET reported == ok /\ saver \in {"init", "call"} IN
  /\ saver' = "none" /\ opened' = FALSE
  /\ lastOk' = ok
  /\ acked' = IF reported THEN {mem.set} ELSE acked
  /\ later' = IF reported THEN {} ELSE later
  /\ phase' = CASE saver = "init"  -> IF ok THEN "run" ELSE "down"
                [] saver = "sync"  -> "run"
                [] saver = "final" -> "saved"
                [] OTHER           -> phase
  /\ UNCHANGED <<release, mem, async>>

OpenFile ==
  /\ saver # "none" /\ ~opened
  /\ file' = "empty" /\ opened' = TRUE
  /\ UNCHANGED <<phase, release, mem, disk, saver, async, historyVars>>

\* Mutant: a file that cannot be opened is not reported.
OpenFails_Silent ==
  /\ IOFails /\ saver # "none" /\ ~opened
  /\ SaveEnds(TRUE)
  /\ UNCHANGED <<file, disk>>

OpenFails ==
  /\ IOFails /\ saver # "none" /\ ~opened
  /\ SaveEnds(FALSE)
  /\ UNCHANGED <<file, disk>>

\* Mutant: what was on disk before is written back.
WriteFile_Stale ==
  /\ opened
  /\ file' = "whole" /\ UNCHANGED disk
  /\ SaveEnds(TRUE)

WriteFile ==
  /\ opened
  /\ file' = "whole" /\ disk' = mem
  /\ SaveEnds(TRUE)

WriteFails ==
  /\ IOFails /\ opened
  /\ file' \in {"empty", "torn"} /\ UNCHANGED disk
  /\ SaveEnds(FALSE)

-----------------------------------------------------------------------------
(* The end of the process.                                                 *)

\* main() has been told to stop: it closes the HTTP server and the rest, whoever
\* still saves ...
Shutdown ==
  /\ phase = "run"
  /\ phase' = "closing"
  /\ UNCHANGED <<release, mem, file, disk, saver, opened, async, historyVars>>

\* ... and saves.
Save ==
  /\ phase = "closing" /\ saver = "none"
  /\ saver' = "final"
  /\ UNCHANGED <<phase, release, mem, file, disk, opened, async, historyVars>>

\* The process ends wherever its goroutines are.
ProcessEnds ==
  /\ phase' = "down"
  /\ saver' = "none" /\ opened' = FALSE /\ async' = 0
  /\ IF opened THEN file' \in {"empty", "torn"} ELSE UNCHANGED file
  /\ UNCHANGED <<release, mem, disk, historyVars>>

MainReturns == phase = "saved" /\ ProcessEnds

Crash ==
  /\ phase # "down"
  /\ Crashes = "anywhere" \/ (Crashes = "betweenWrites" /\ ~opened)
  /\ ProcessEnds

-----------------------------------------------------------------------------

ManagerNext ==
  \/ \E r \in Release : Start(r)
  \/ LoadAbsent \/ LoadTorn \/ LoadFile
  \/ UpdateServerConfig \/ ChangeList \/ ResetToDefaults
  \/ Move \/ UpdatePTZ
  \/ OpenFile \/ OpenFails \/ WriteFile \/ WriteFails
  \/ Shutdown \/ Save \/ MainReturns \/ Crash

ManagerSpec == ManagerInit /\ [][ManagerNext]_managerVars

-----------------------------------------------------------------------------
(* Properties.                                                             *)

ManagerTypeOK ==
  /\ phase \in {"down", "loading", "run", "closing", "saved"}
  /\ release \in Release
  /\ mem \in Config /\ disk \in Config
  /\ file \in {"missing", "empty", "torn", "whole"}
  /\ saver \in {"none", "init", "sync", "call", "async", "final"}
  /\ opened \in BOOLEAN
  /\ async \in 0 .. MaxAsync
  /\ lastOk \in BOOLEAN
  /\ acked \subseteq Setting /\ later \subseteq Setting

\* With writes that fail and processes killed anywhere: a file that can be
\* loaded holds the settings last reported as saved, or newer ones whose call
\* failed or was cut off.  Older settings never come back.
NoOldSettings == file = "whole" => disk.set \in acked \cup later

\* A save that succeeds heals what an earlier one left behind: whenever the last
\* save succeeded and none is under way, the file is what is in memory.
SaveHeals ==
  phase \in {"run", "closing", "saved"} /\ saver = "none" /\ lastOk
    => file = "whole" /\ disk = mem

-----------------------------------------------------------------------------
(* The inductive invariant.                                                *)

\* What is in memory may be written at any moment from when it was loaded on, also
\* by those who report nothing.
MemoryIsKnown ==
  saver # "none" \/ phase \in {"run", "closing", "saved"} => mem.set \in acked \cup later

\* Nobody saves in a process that is not there, and no file is open without a saver.
SaverInv ==
  /\ opened => saver # "none"
  /\ phase = "down" => saver = "none"

ManagerInv == ManagerTypeOK /\ SaverInv /\ MemoryIsKnown /\ NoOldSettings /\ SaveHeals

=============================================================================
