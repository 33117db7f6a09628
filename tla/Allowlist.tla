------------------------------- MODULE Allowlist -------------------------------
(***************************************************************************)
(* The allowlist of a hardened install, a private file of root's that the  *)
(* user may read by an ACL: tools/configure_allowlist.py, which changes    *)
(* it, and the part of install-hardened.sh that sets it up.                *)
(*                                                                         *)
(* Both are run by hand, so runs of them may overlap.  The tool reads the  *)
(* list, edits it in memory, and hands it to sudo, which may wait for a    *)
(* password for minutes; then the file is replaced and its ACL set again,  *)
(* one command after the other, and each of them may fail or be killed.    *)
(* A helper may load the list at any moment.                               *)
(*                                                                         *)
(* Entries are identifiers as in PolicyMatch; their case is left out,      *)
(* since neither the tool nor the helper minds it.                         *)
(***************************************************************************)
EXTENDS PolicyMatch, Naturals, FiniteSets

CONSTANTS Runs,      \* terminals, in each of which one command runs at a time
          Entries,   \* what the user may enter
          None,      \* no file, no edit
          MaxRuns,   \* bound: commands run
          MaxFaults  \* bound: commands killed or refused by sudo, ACLs not set

ASSUME AllowConstants ==
    /\ IsFiniteSet(Runs) /\ IsFiniteSet(Entries)
    /\ \A e, f \in Entries : e.name = f.name => e = f
    /\ None \notin [entries : SUBSET Entries, readable : BOOLEAN]
    /\ None \notin [do : {"add", "remove"}, entry : Entries]
    /\ MaxRuns \in Nat /\ MaxFaults \in Nat

VARIABLES list,      \* allowed_chats.txt
          job,       \* per terminal: the place in its command, with its variables
          runs, faults,
          \* history, which no guard reads:
          overlaps,  \* how many commands were begun while another was going on
          holes,     \* how many commands died when the old list was gone and no new one there
          emptied,   \* how often the template was installed although something was wanted
          wanted,    \* what all edits add up to, in the order in which they took effect
          removed    \* entries that were removed, and nothing that matches added since

history == <<overlaps, holes, emptied, wanted, removed>>
vars == <<list, job, runs, faults, history>>

\* validate_entry: a phone number, an email address or the identifier of a group
Valid(e) == e.digits # NoDigits \/ e.email \/ e.group

ValidEntries == {e \in Entries : Valid(e)}

Lists == [entries : SUBSET ValidEntries, readable : BOOLEAN]

Edits == [do : {"add", "remove"}, entry : ValidEntries]

Jobs == [pc : {"off", "old", "new", "verify", "clear", "grant"},
         edit : Edits \cup {None},     \* None: the installer
         entries : SUBSET ValidEntries]  \* the list in memory

Off == [pc |-> "off", edit |-> None, entries |-> {}]

Init ==
    /\ list = None
    /\ job = [r \in Runs |-> Off]
    /\ runs = 0 /\ faults = 0
    /\ overlaps = 0 /\ holes = 0 /\ emptied = 0
    /\ wanted = {}
    /\ removed = {}

At(r, pc) == job[r].pc = pc
Become(r, j) == job' = [job EXCEPT ![r] = j]
Goto(r, pc) == job' = [job EXCEPT ![r].pc = pc]

Begin(r) ==
    /\ At(r, "off")
    /\ runs < MaxRuns
    /\ runs' = runs + 1
    /\ overlaps' = overlaps + IF \A s \in Runs : At(s, "off") THEN 0 ELSE 1
    /\ UNCHANGED <<faults, holes, emptied, wanted, removed>>

\* Mutant of Edited: the edit is appended, and nothing removed.
EditedAppending(entries, edit) == entries \cup {edit.entry}

\* Mutant of Edited: an addition forgets what was read.
EditedAnew(entries, edit) ==
    IF edit.do = "add" THEN {edit.entry}
    ELSE {e \in entries : e.name # edit.entry.name}

\* main: an entry is removed where its text is the same
Edited(entries, edit) ==
    IF edit.do = "add" THEN entries \cup {edit.entry}
    ELSE {e \in entries : e.name # edit.entry.name}

\* read_entries: a list that is not there, or not to be read, ends the run
EditBegins(r) ==
    /\ Begin(r)
    /\ list # None /\ list.readable
    /\ \E do \in {"add", "remove"}, e \in Entries :
          LET edit == [do |-> do, entry |-> e] IN
          /\ Valid(e)
          /\ Become(r, [pc |-> "old", edit |-> edit, entries |-> Edited(list.entries, edit)])
    /\ UNCHANGED list

\* Mutant of InstallBegins: the template is installed always.
InstallBeginsAnew(r) ==
    /\ Begin(r)
    /\ Become(r, [Off EXCEPT !.pc = "old"])
    /\ UNCHANGED list

\* install-hardened.sh: the template is installed only where there is no list
InstallBegins(r) ==
    /\ Begin(r)
    /\ Become(r, [Off EXCEPT !.pc = IF list = None THEN "old" ELSE "verify"])
    /\ UNCHANGED list

--------------------------------------------------------------------------------
(* sudo install -o root -g wheel -m 600 *)

\* the old file goes
InstallOld(r) ==
    /\ At(r, "old")
    /\ list' = None
    /\ Goto(r, "new")
    /\ UNCHANGED <<runs, faults, history>>

Wanted(r) ==
    LET edit == job[r].edit IN
    IF edit = None THEN wanted
    ELSE IF edit.do = "add" THEN wanted \cup {edit.entry}
    ELSE wanted \ {edit.entry}

Removed(r) ==
    LET edit == job[r].edit IN
    IF edit = None THEN removed
    ELSE IF edit.do = "remove" THEN removed \cup {edit.entry}
    ELSE {e \in removed \ {edit.entry} : ~EntryMatches(edit.entry, e)}

\* a new one takes its place, without an ACL
InstallNew(r) ==
    /\ At(r, "new")
    /\ list' = [entries |-> job[r].entries, readable |-> FALSE]
    /\ wanted' = Wanted(r)
    /\ removed' = Removed(r)
    /\ emptied' = emptied + IF job[r].edit = None /\ wanted # {} THEN 1 ELSE 0
    /\ Goto(r, "verify")
    /\ UNCHANGED <<runs, faults, overlaps, holes>>

--------------------------------------------------------------------------------
(* What follows, on whatever has the name by now *)

\* the file is gone: the run ends with an error
Ends(r) ==
    /\ job[r].pc \in {"verify", "clear", "grant"}
    /\ list = None
    /\ Become(r, Off)
    /\ UNCHANGED <<list, runs, faults, history>>

\* Mutant of Verify: nothing follows.
VerifyLast(r) ==
    /\ At(r, "verify")
    /\ list # None
    /\ Become(r, Off)
    /\ UNCHANGED <<list, runs, faults, history>>

\* lstat, or the installer's check of owner and mode
Verify(r) ==
    /\ At(r, "verify")
    /\ list # None
    /\ Goto(r, "clear")
    /\ UNCHANGED <<list, runs, faults, history>>

\* chmod -N; the installer goes on when it fails
Clear(r) ==
    /\ At(r, "clear")
    /\ list # None
    /\ \/ list' = [list EXCEPT !.readable = FALSE] /\ UNCHANGED faults
       \/ /\ job[r].edit = None
          /\ faults < MaxFaults /\ faults' = faults + 1
          /\ UNCHANGED list
    /\ Goto(r, "grant")
    /\ UNCHANGED <<runs, history>>

\* chmod +a
Grant(r) ==
    /\ At(r, "grant")
    /\ list # None
    /\ list' = [list EXCEPT !.readable = TRUE]
    /\ Become(r, Off)
    /\ UNCHANGED <<runs, faults, history>>

\* killed, or one of its commands fails; the list stays as it is, or gone
Fails(r) ==
    /\ ~At(r, "off")
    /\ faults < MaxFaults
    /\ faults' = faults + 1
    /\ holes' = holes + IF At(r, "new") /\ list = None THEN 1 ELSE 0
    /\ Become(r, Off)
    /\ UNCHANGED <<list, runs, overlaps, emptied, wanted, removed>>

RunNext(r) ==
    \/ EditBegins(r) \/ InstallBegins(r)
    \/ InstallOld(r) \/ InstallNew(r)
    \/ Ends(r) \/ Verify(r) \/ Clear(r) \/ Grant(r) \/ Fails(r)

Next == \E r \in Runs : RunNext(r)

Spec == Init /\ [][Next]_vars

--------------------------------------------------------------------------------
(* What a helper makes of it *)

\* _load_list: no file, no entries; one that it may not read ends the helper
Loadable == IF list # None /\ list.readable THEN list.entries ELSE {}

Policy == [mode |-> "allowlist", blocklist |-> {}, allowlist |-> Loadable]

--------------------------------------------------------------------------------

(* Type correctness.                                                        *)
AllowTypeOK ==
    /\ list \in Lists \cup {None}
    /\ job \in [Runs -> Jobs]
    /\ runs \in 0..MaxRuns /\ faults \in 0..MaxFaults
    /\ overlaps \in Nat /\ holes \in Nat /\ emptied \in Nat
    /\ wanted \subseteq ValidEntries /\ removed \subseteq ValidEntries

Differ == (list.entries \ wanted) \cup (wanted \ list.entries)

(* Until the list is lost as a whole, it is what all edits add up to, but   *)
(* for at most one entry per overlap: an edit that was made from the list   *)
(* as another edit found it undoes that one, an addition or a removal, and  *)
(* nothing else. So one command after the other loses nothing, wherever     *)
(* they fail and however often the installer runs in between.               *)
ListAddsUp == list # None /\ emptied = 0 => Cardinality(Differ) <= overlaps

(* The list is lost as a whole only by a command that died when the old     *)
(* list was gone and no new one there, or by an overlap: the installer,     *)
(* which takes the missing list for a first installation, would put the     *)
(* empty template in its place, once for each of those.                     *)
EmptiedHasACause == emptied <= holes + overlaps

(* An edit may be undone by one that had read the list before, but each     *)
(* overlap brings back at most one entry that was removed, and a            *)
(* re-installation brings back none.                                        *)
FewComeBack ==
    list # None => Cardinality(list.entries \cap removed) <= overlaps

(* A list that helpers cannot read is on the way to be readable, or one of  *)
(* the commands failed: whatever the commands that overlap do to each       *)
(* other's file, the last of them leaves it with its ACL.                   *)
ClosedHasACause ==
    list # None /\ ~list.readable =>
        faults > 0 \/ \E r \in Runs : job[r].pc \in {"verify", "clear", "grant"}

(* contacts/allowed_chats.txt.template: "Phone numbers match by their last  *)
(* 10 digits".  An entry that was removed, by the only command that ran,    *)
(* would not be readable.                                                   *)
RemovedIsHidden ==
    overlaps = 0 => \A e \in removed : ~IsReadAllowed(e, e, Policy)

--------------------------------------------------------------------------------
(* Why: the inductive invariant *)

\* the commands that have a list in memory to install
Pending == {r \in Runs : job[r].pc \in {"old", "new"}}

Entered == IF list = None THEN {} ELSE list.entries

\* what has come back, or will with one of these, and the removals that the others
\* may still undo, are paid for by the overlaps of all of them
ComebacksPaid ==
    LET n == Cardinality(Pending) IN
    /\ Cardinality(Entered \cap removed) + (IF n = 0 THEN 0 ELSE n - 1) <= overlaps
    /\ \A r \in Pending : Cardinality(job[r].entries \cap Removed(r)) + n - 1 <= overlaps

\* what the installer installs is empty
TemplateIsEmpty == \A r \in Runs : job[r].edit = None => job[r].entries = {}

Apart(S, T) == (S \ T) \cup (T \ S)

\* the list, and every list that an edit is about to install, is apart from what is then
\* wanted by what was paid for, with the overlaps of the others to spare
EditsPaid ==
    LET n == Cardinality(Pending) IN
    emptied = 0 =>
        /\ list # None =>
              Cardinality(Apart(list.entries, wanted)) + (IF n = 0 THEN 0 ELSE n - 1) <= overlaps
        /\ \A r \in Pending : job[r].edit # None =>
              Cardinality(Apart(job[r].entries, Wanted(r))) + n - 1 <= overlaps

\* the installers that are about to install the template
Templates == {r \in Pending : job[r].edit = None}

\* 1 when what was wanted is gone, and nobody is about to put a list there
Gap ==
    IF /\ list = None /\ wanted # {}
       /\ Templates = {} /\ \A r \in Runs : ~At(r, "new")
    THEN 1 ELSE 0

\* 1 when the template is on its way as in a first installation, before anything is wanted
First == IF Templates # {} /\ Pending = Templates /\ wanted = {} THEN 1 ELSE 0

\* a first installation costs nothing; every other template on its way, and a gap that
\* waits for one, has been paid for
TemplatesPaid == emptied + Cardinality(Templates) + Gap <= holes + overlaps + First

AllowInv == AllowTypeOK /\ ComebacksPaid /\ TemplateIsEmpty /\ EditsPaid /\ TemplatesPaid
================================================================================
