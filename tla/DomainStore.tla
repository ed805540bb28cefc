---------------------------- MODULE DomainStore ----------------------------
(***************************************************************************)
(* The allowed domains (internal/server/domains.go): a list in memory and   *)
(* a JSON file.  A change is made in memory, and the file rewritten, under  *)
(* the store's mutex.  os.WriteFile opens the file, which truncates it, and *)
(* then writes: it may fail at either, and the process may die in between.  *)
(* At the start the file is read once, and an error of the read is ignored. *)
(***************************************************************************)
CONSTANTS Domains, \* names, trimmed and in lower case
          Writers, \* whoever may change the list
          Idle     \* nobody holds the mutex

ASSUME DomainAssumption == Idle \notin Writers

VARIABLES domains, \* DomainStore.domains
          file,    \* what allowed_domains.json holds
          holder,  \* who holds the mutex
          saving,  \* where saveLocked is: "no", "open" or "write"
          failed   \* (history) a save, or the read at the start, failed, and no save
                   \* has succeeded since

domainVars == <<domains, file, holder, saving, failed>>

(* The file is absent, or was truncated and not written, or holds a list. *)
File == [is : {"absent", "torn"}, list : {{}}] \cup [is : {"whole"}, list : SUBSET Domains]

(* The list Load takes from a file it can read: what cannot be parsed is an
   error, which NewDomainStore ignores, and leaves the list empty. *)
Loaded(f) == IF f.is = "whole" THEN f.list ELSE {}

DomainInit ==
    /\ domains = {}
    /\ file = [is |-> "absent", list |-> {}]
    /\ holder = Idle /\ saving = "no"
    /\ failed = FALSE

(* The mutex is taken and the list changed. *)
Change(w, new) ==
    /\ holder = Idle
    /\ domains' = new
    /\ holder' = w /\ saving' = "open"
    /\ UNCHANGED <<file, failed>>

Add(w, d) == d \notin domains /\ Change(w, domains \cup {d})

(* A removal that is not saved. *)
RemoveUnsaved(w, d) ==
    /\ d \in domains /\ holder = Idle
    /\ domains' = domains \ {d}
    /\ UNCHANGED <<file, holder, saving, failed>>

Remove(w, d) == d \in domains /\ Change(w, domains \ {d})

(* The domain is there already, or not there: nil, and nothing is saved. *)
NoChange(w, d) == holder = Idle /\ UNCHANGED domainVars

(* An error that is returned without the deferred unlock. *)
SaveFailsLocked(w) ==
    /\ holder = w /\ saving \in {"open", "write"}
    /\ failed' = TRUE
    /\ saving' = "no"
    /\ UNCHANGED <<domains, file, holder>>

(* An error is returned, and the list in memory stays as it is. *)
SaveFails(w) ==
    /\ holder = w /\ saving \in {"open", "write"}
    /\ failed' = TRUE
    /\ holder' = Idle /\ saving' = "no"
    /\ UNCHANGED <<domains, file>>

Truncate(w) ==
    /\ holder = w /\ saving = "open"
    /\ file' = [is |-> "torn", list |-> {}]
    /\ saving' = "write"
    /\ UNCHANGED <<domains, holder, failed>>

WriteList(w) ==
    /\ holder = w /\ saving = "write"
    /\ file' = [is |-> "whole", list |-> domains]
    /\ failed' = FALSE
    /\ holder' = Idle /\ saving' = "no"
    /\ UNCHANGED domains

(* os.ReadFile returns what there is; no file is an empty list. *)
LoadSucceeds == domains' = Loaded(file) /\ failed' = FALSE

(* A read error ignored as well, and no file missing: the list is empty whatever
   the file holds, and the next change overwrites it. *)
LoadFails == file.is # "absent" /\ domains' = {} /\ failed' = TRUE

(* The process dies and NewDomainStore loads the list. *)
Reload ==
    /\ LoadSucceeds \/ LoadFails
    /\ holder' = Idle /\ saving' = "no"
    /\ UNCHANGED file

DomainTypeOK ==
    /\ domains \subseteq Domains
    /\ file \in File
    /\ holder \in Writers \cup {Idle}
    /\ saving \in {"no", "open", "write"}
    /\ (saving = "no") = (holder = Idle)
    /\ failed \in BOOLEAN

(* List and file differ only during a save, or after a failed save or a failed
   read at the start, and then only until a save succeeds: a saved change, a crash
   in a save and a restart that can read the file leave them equal.  That what a
   failed read hides will survive is not said: the next save overwrites it. *)
FileHoldsList == saving = "no" /\ ~failed => Loaded(file) = domains
=============================================================================
