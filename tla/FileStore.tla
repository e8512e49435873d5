------------------------------- MODULE FileStore -------------------------------
(***************************************************************************)
(* The settings files of orbis-config, and what a kill or a power loss     *)
(* leaves of them. Two ways of saving are in use:                          *)
(*                                                                         *)
(*  - "careful" (preferences.rs, window_state.rs, and with the same calls  *)
(*    desired_state.rs, store.rs, autostart.rs): a temporary file of its   *)
(*    own, its fsync, the rename and the fsync of the directory. A file    *)
(*    that cannot be read refuses the change (mutate_preferences_with,     *)
(*    persist_position).                                                   *)
(*  - "plain" (power_rules.rs, keyboard_timeout.rs, profile_limits.rs):    *)
(*    one temporary file, its fsync and the rename. A file that is not     *)
(*    valid is first moved aside.                                          *)
(*                                                                         *)
(* One process writes a store (single_instance.rs), one save at a time.    *)
(* The file system renames atomically and in order, but keeps neither      *)
(* unsynced contents nor unsynced renames through a power loss.            *)
(***************************************************************************)
EXTENDS Integers

CONSTANTS Docs,        \* contents a save may write
          MaxSaves, MaxHandEdits, MaxErrors, MaxLosses

Absent == "no file"
Torn == "half a document"
Bad == "not a valid document"
Contents == Docs \cup {Absent, Torn, Bad}

VARIABLES flavour, \* of the store
          dir,     \* what processes see: [file, aside], contents
          temp,    \* the temporary file of the save under way: [text, synced]
          after,   \* the directories a power loss may leave
          save,    \* [at, doc]
          answered, \* history: the last acknowledged save, if nothing changed the file since
          count    \* saves, hand edits, errors and power losses so far

storeVars == <<flavour, dir, temp, after, save, answered, count>>

Dirs == [file : Contents, aside : {Absent, Torn, Bad}]
SaveSteps == {"rest", "asked", "aside", "created", "written", "synced", "renamed"}

StoreTypeOK ==
  /\ flavour \in {"careful", "plain"}
  /\ dir \in Dirs /\ after \subseteq Dirs /\ dir \in after
  /\ temp \in [text : Contents, synced : BOOLEAN]
  /\ save \in [at : SaveSteps, doc : Docs]
  /\ answered \in Docs \cup {Absent}
  /\ count \in [saves : 0 .. MaxSaves, edits : 0 .. MaxHandEdits,
                errors : 0 .. MaxErrors, losses : 0 .. MaxLosses]

NoTemp == [text |-> Absent, synced |-> FALSE]
Valid(text) == text \notin {Torn, Bad}

Init ==
  /\ flavour \in {"careful", "plain"}
  /\ dir \in [file : Docs \cup {Absent, Bad}, aside : {Absent}]
  /\ after = {dir}
  /\ temp = NoTemp
  /\ save \in [at : {"rest"}, doc : Docs]
  /\ answered = Absent
  /\ count = [saves |-> 0, edits |-> 0, errors |-> 0, losses |-> 0]

(* A change of directory entries: seen at once, kept after the next sync.  *)
Becomes(d) == dir' = d /\ after' = after \cup {d}

-----------------------------------------------------------------------------
(* A save                                                                  *)

Step(from, to) == save.at = from /\ save' = [save EXCEPT !.at = to]

Ask(doc) ==
  /\ save.at = "rest"
  /\ count.saves < MaxSaves
  /\ count' = [count EXCEPT !.saves = @ + 1]
  /\ save' = [at |-> "asked", doc |-> doc]
  /\ UNCHANGED <<flavour, dir, temp, after, answered>>

(* A careful store reads before it writes, and leaves a bad file alone.    *)
Preserve ==
  /\ flavour = "careful" /\ ~Valid(dir.file)
  /\ Step("asked", "rest")
  /\ UNCHANGED <<flavour, dir, temp, after, answered, count>>

(* Mutant: a bad file is overwritten like any other.                       *)
LookPast ==
  /\ flavour = "careful" => Valid(dir.file)
  /\ Step("asked", "aside")
  /\ UNCHANGED <<flavour, dir, temp, after, answered, count>>

(* A plain store renames a bad file to .invalid.                           *)
Look ==
  /\ flavour = "careful" => Valid(dir.file)
  /\ Step("asked", "aside")
  /\ IF Valid(dir.file) THEN UNCHANGED <<dir, after>>
     ELSE Becomes([file |-> Absent, aside |-> dir.file])
  /\ UNCHANGED <<flavour, temp, answered, count>>

(* create_new under a unique name, or File::create, that truncates what an *)
(* earlier save left there.                                                *)
Create ==
  /\ Step("aside", "created")
  /\ temp' = [text |-> Torn, synced |-> FALSE]
  /\ UNCHANGED <<flavour, dir, after, answered, count>>

Write ==
  /\ Step("created", "written")
  /\ temp' = [temp EXCEPT !.text = save.doc]
  /\ UNCHANGED <<flavour, dir, after, answered, count>>

(* Mutant: the contents are left to the page cache.                        *)
SyncNothing ==
  /\ Step("written", "synced")
  /\ UNCHANGED <<flavour, dir, temp, after, answered, count>>

Sync ==
  /\ Step("written", "synced")
  /\ temp' = [temp EXCEPT !.synced = TRUE]
  /\ UNCHANGED <<flavour, dir, after, answered, count>>

(* The rename. Contents that were not synced may be lost with the power.   *)
Rename ==
  /\ Step("synced", "renamed")
  /\ dir' = [dir EXCEPT !.file = temp.text]
  /\ after' = after \cup {dir'}
              \cup (IF temp.synced THEN {} ELSE {[dir EXCEPT !.file = Torn]})
  /\ temp' = NoTemp
  /\ UNCHANGED <<flavour, answered, count>>

(* The save is done: a careful one has synced the directory.               *)
Done ==
  /\ Step("renamed", "rest")
  /\ after' = IF flavour = "careful" THEN {dir} ELSE after
  /\ answered' = save.doc
  /\ UNCHANGED <<flavour, dir, temp, count>>

(* One of the calls fails. A careful save removes its temporary file; a    *)
(* plain one leaves it to the next. After the rename only the sync can     *)
(* fail: the error is returned, the new contents stay.                     *)
Errs ==
  /\ save.at # "rest"
  /\ save.at = "renamed" => flavour = "careful"
  /\ count.errors < MaxErrors
  /\ count' = [count EXCEPT !.errors = @ + 1]
  /\ save' = [save EXCEPT !.at = "rest"]
  /\ temp' = IF flavour = "careful" THEN NoTemp ELSE temp
  /\ answered' = IF save.at = "renamed" THEN Absent ELSE answered
  /\ UNCHANGED <<flavour, dir, after>>

-----------------------------------------------------------------------------
(* The world                                                               *)

(* The user writes the file with an editor, between two saves, and a sync  *)
(* of the system follows.                                                  *)
HandEdit(text) ==
  /\ save.at = "rest"
  /\ count.edits < MaxHandEdits
  /\ count' = [count EXCEPT !.edits = @ + 1]
  /\ dir' = [dir EXCEPT !.file = text]
  /\ after' = {dir'}
  /\ answered' = Absent
  /\ UNCHANGED <<flavour, temp, save>>

(* The process is killed; its temporary file stays where it is.            *)
Kill ==
  /\ save.at # "rest"
  /\ count.losses < MaxLosses
  /\ count' = [count EXCEPT !.losses = @ + 1]
  /\ save' = [save EXCEPT !.at = "rest"]
  /\ answered' = IF save.at = "renamed" THEN Absent ELSE answered
  /\ UNCHANGED <<flavour, dir, temp, after>>

(* The power fails; after the boot the directory is one of those it may be. *)
PowerLoss ==
  /\ count.losses < MaxLosses
  /\ count' = [count EXCEPT !.losses = @ + 1]
  /\ dir' \in after
  /\ after' = {dir'}
  /\ temp' = [text |-> IF temp.synced \/ temp.text = Absent THEN temp.text ELSE Torn,
              synced |-> TRUE]
  /\ save' = [save EXCEPT !.at = "rest"]
  /\ answered' = IF save.at = "renamed" THEN Absent ELSE answered
  /\ UNCHANGED flavour

Next ==
  \/ \E doc \in Docs : Ask(doc)
  \/ Preserve \/ Look \/ Create \/ Write \/ Sync \/ Rename \/ Done \/ Errs
  \/ \E text \in Docs \cup {Absent, Bad} : HandEdit(text)
  \/ Kill \/ PowerLoss

Spec == Init /\ [][Next]_storeVars

-----------------------------------------------------------------------------
(* Properties                                                              *)

(* "Durable atomic write": no error, kill or power loss at any step of any *)
(* save leaves half a document in a store, and a careful store still has,  *)
(* after it, the document whose save it acknowledged last.                 *)
SavesSurvive ==
  /\ \A d \in after : d.file # Torn
  /\ flavour = "careful" /\ save.at \notin {"renamed"} /\ answered # Absent
       => \A d \in after : d.file = answered

(* "invalid source bytes are never overwritten": what a user's mistake     *)
(* made unreadable is still in the file, or beside it, until the user      *)
(* writes the file again or a newer mistake takes its place.               *)
BadKept ==
  [][dir.file = Bad => dir'.file = Bad \/ dir'.aside = Bad \/ count'.edits # count.edits]_storeVars
===============================================================================
