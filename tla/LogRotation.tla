------------------------------ MODULE LogRotation ------------------------------
(***************************************************************************)
(* control/log.txt and its backups: log and _rotate_log of bin/helper.py,  *)
(* one action per system call.                                             *)
(*                                                                         *)
(* Helpers log before they hold the bridge lock, and after they have given *)
(* up on it, so the calls of several may overlap.  The size is read first; *)
(* then the backups are shifted one name at a time, each after a look at   *)
(* whether it is there; then log.txt is opened, or created, and the line   *)
(* is appended to whatever file was opened.  Every exception is swallowed, *)
(* and the line is lost with it.                                           *)
(***************************************************************************)
EXTENDS Naturals, FiniteSets

CONSTANTS Workers,    \* helper processes
          Backups,    \* LOG_BACKUP_COUNT
          Full,       \* LOG_MAX_BYTES, in lines
          MaxCalls,   \* bound: calls of log
          MaxCrashes  \* bound: helpers killed

ASSUME LogConstants ==
    /\ IsFiniteSet(Workers)
    /\ Backups \in Nat \ {0} /\ Full \in Nat \ {0}
    /\ MaxCalls \in Nat /\ MaxCrashes \in Nat

VARIABLES file,     \* per name, 0 for log.txt and i for log.txt.i: the file, or None
          lines,    \* per file: the lines in it, each by its place in time
          written,  \* how many lines were written
          calls,    \* how many calls were begun
          job,      \* per helper: its place in log, with its local variables
          crashes,
          dropped,  \* how many lines an exception cost
          overlaps, \* how many calls were begun while another was going on
          since     \* history: the counts when the last call began alone after a race

vars == <<file, lines, written, calls, job, crashes, dropped, overlaps, since>>

Names == 0..Backups
Files == 1..MaxCalls   \* no call creates more than one
None  == 0

Jobs == [pc : {"off", "size", "oldest", "drop", "source", "move", "open", "write"},
         index : Names, fd : Files \cup {None}]

Idle == [pc |-> "off", index |-> 0, fd |-> None]

Counts == [written |-> written, crashes |-> crashes, overlaps |-> overlaps]

Init ==
    /\ file = [n \in Names |-> None]
    /\ lines = [f \in Files |-> {}]
    /\ written = 0 /\ calls = 0
    /\ job = [w \in Workers |-> Idle]
    /\ crashes = 0 /\ dropped = 0 /\ overlaps = 0
    /\ since = Counts

At(w, pc) == job[w].pc = pc
Become(w, j) == job' = [job EXCEPT ![w] = j]

\* log: a line is to be written
Call(w) ==
    /\ At(w, "off")
    /\ calls < MaxCalls
    /\ calls' = calls + 1
    /\ IF \E v \in Workers : ~At(v, "off")
       THEN overlaps' = overlaps + 1 /\ UNCHANGED since
       ELSE /\ since' = IF overlaps = since.overlaps THEN since ELSE Counts
            /\ UNCHANGED overlaps
    /\ Become(w, [Idle EXCEPT !.pc = "size"])
    /\ UNCHANGED <<file, lines, written, crashes, dropped>>

\* an exception: the line is not written
Abort(w) ==
    /\ Become(w, Idle)
    /\ dropped' = dropped + 1
    /\ UNCHANGED <<file, lines, written, calls, crashes, overlaps, since>>

Step(w, j) ==
    /\ Become(w, j)
    /\ UNCHANGED <<file, lines, written, calls, crashes, dropped, overlaps, since>>

--------------------------------------------------------------------------------
(* _rotate_log *)

\* Mutant of Size: a file is rotated only once it is longer than allowed.
SizeOver(w) ==
    /\ At(w, "size")
    /\ IF file[0] # None /\ Cardinality(lines[file[0]]) > Full
       THEN Step(w, [Idle EXCEPT !.pc = "oldest"])
       ELSE Step(w, [Idle EXCEPT !.pc = "open"])

Size(w) ==
    /\ At(w, "size")
    /\ IF file[0] # None /\ Cardinality(lines[file[0]]) >= Full
       THEN Step(w, [Idle EXCEPT !.pc = "oldest"])
       ELSE Step(w, [Idle EXCEPT !.pc = "open"])

\* Mutant of Shift: log.txt is moved without the backups.
ShiftNone(i) == [Idle EXCEPT !.pc = "move"]

\* the loop over index goes down to 1; then log.txt itself is moved
Shift(i) == [pc |-> IF i = 0 THEN "move" ELSE "source", index |-> i, fd |-> None]

Oldest(w) ==
    /\ At(w, "oldest")
    /\ IF file[Backups] = None
       THEN Step(w, Shift(Backups - 1))
       ELSE Step(w, [Idle EXCEPT !.pc = "drop"])

\* Mutant of Drop: the last backup but one goes.
DropTooNew(w) ==
    /\ At(w, "drop")
    /\ IF file[Backups - 1] = None
       THEN Abort(w)
       ELSE /\ file' = [file EXCEPT ![Backups - 1] = None]
            /\ Become(w, Shift(Backups - 1))
            /\ UNCHANGED <<lines, written, calls, crashes, dropped, overlaps, since>>

Drop(w) ==
    /\ At(w, "drop")
    /\ IF file[Backups] = None
       THEN Abort(w)
       ELSE /\ file' = [file EXCEPT ![Backups] = None]
            /\ Become(w, Shift(Backups - 1))
            /\ UNCHANGED <<lines, written, calls, crashes, dropped, overlaps, since>>

\* Mutant of Source: a backup is moved without a look whether it is there.
SourceUnseen(w) ==
    /\ At(w, "source")
    /\ Step(w, [job[w] EXCEPT !.pc = "move"])

\* a backup that is not there is passed over
Source(w) ==
    /\ At(w, "source")
    /\ IF file[job[w].index] = None
       THEN Step(w, Shift(job[w].index - 1))
       ELSE Step(w, [job[w] EXCEPT !.pc = "move"])

\* os.replace: over whatever has the next name by then
Move(w) ==
    LET i == job[w].index IN
    /\ At(w, "move")
    /\ IF file[i] = None
       THEN Abort(w)
       ELSE /\ file' = [file EXCEPT ![i + 1] = file[i], ![i] = None]
            /\ Become(w, IF i = 0 THEN [Idle EXCEPT !.pc = "open"] ELSE Shift(i - 1))
            /\ UNCHANGED <<lines, written, calls, crashes, dropped, overlaps, since>>

--------------------------------------------------------------------------------
(* the rest of log *)

Created == {f \in Files : \E n \in Names : file[n] = f} \cup
           {f \in Files : lines[f] # {}} \cup {job[w].fd : w \in Workers}

Open(w) ==
    /\ At(w, "open")
    /\ \E f \in Files :
          /\ IF file[0] = None
             THEN f \notin Created /\ \A g \in Files \ Created : f <= g
             ELSE f = file[0]
          /\ file' = [file EXCEPT ![0] = f]
          /\ Become(w, [pc |-> "write", index |-> 0, fd |-> f])
    /\ UNCHANGED <<lines, written, calls, crashes, dropped, overlaps, since>>

\* O_APPEND, to the file that was opened, whatever its name is by now
Write(w) ==
    /\ At(w, "write")
    /\ lines' = [lines EXCEPT ![job[w].fd] = @ \cup {written + 1}]
    /\ written' = written + 1
    /\ Become(w, Idle)
    /\ UNCHANGED <<file, calls, crashes, dropped, overlaps, since>>

Crash(w) ==
    /\ ~At(w, "off")
    /\ crashes < MaxCrashes
    /\ crashes' = crashes + 1
    /\ Become(w, Idle)
    /\ UNCHANGED <<file, lines, written, calls, dropped, overlaps, since>>

LogNext(w) ==
    \/ Call(w) \/ Size(w) \/ Oldest(w) \/ Drop(w) \/ Source(w) \/ Move(w)
    \/ Open(w) \/ Write(w) \/ Crash(w)

Next == \E w \in Workers : LogNext(w)

Spec == Init /\ [][Next]_vars

--------------------------------------------------------------------------------
(* What the log keeps *)

\* the lines that can still be read under some name, and those that cannot
Kept == UNION {lines[file[n]] : n \in {n \in Names : file[n] # None}}
Lost == (1..written) \ Kept

(* Type correctness.                                                        *)
LogTypeOK ==
    /\ file \in [Names -> Files \cup {None}]
    /\ lines \in [Files -> SUBSET (1..written)]
    /\ written \in Nat /\ calls \in 0..MaxCalls
    /\ job \in [Workers -> Jobs]
    /\ crashes \in 0..MaxCrashes
    /\ dropped \in Nat /\ overlaps \in Nat

(* No file grows past its limit by more than one line per helper, although  *)
(* the size is read long before the line is written.                        *)
FilesBounded ==
    \A f \in Files : Cardinality(lines[f]) < Full + Cardinality(Workers)

(* An exception costs a line only when two calls overlapped, and then one   *)
(* of the two gets its line written: neither a rotation that was found half *)
(* done, because its helper was killed, nor a race costs more.              *)
DroppedOnlyByRace == dropped <= overlaps

(* Since the calls of the last race were over: the lines written, the kills *)
(* and the overlaps, and the lines that the backups have no room for.       *)
Recent == (since.written + 1)..written
Kills  == crashes - since.crashes
Races  == overlaps - since.overlaps
Excess == LET n == written - since.written IN
          IF n > Backups * Full THEN n - Backups * Full ELSE 0

(* What is lost is older than anything that is kept, and a backup holds     *)
(* older lines than those before it.                                        *)
InOrder ==
    /\ \A l \in Lost \cap Recent, k \in Kept : l < k
    /\ \A m, n \in Names : m < n /\ file[m] # None /\ file[n] # None =>
          \A k \in lines[file[m]], l \in lines[file[n]] \cap Recent : l < k

(* As long as no two calls overlap, only the oldest lines are lost, and of  *)
(* those that the backups have room for at most one backup for every kill:  *)
(* a rotation cut short leaves a gap, which moves on but is never one more. *)
(* It holds of the whole log up to the first overlap, and again of the      *)
(* lines written since: a log that a race left in disorder recovers.        *)
OldestFirst ==
    Races = 0 => InOrder /\ Cardinality(Lost \cap Recent) <= Kills * Full + Excess

(* Two calls that overlap cost more, one backup for the gap that they may   *)
(* leave, and one for every two names: each of two rotations in step goes   *)
(* ahead of the other in turn, and writes over what the other has moved.    *)
(* (Two overlaps in a row may cost all there is.)                           *)
LossesBounded ==
    Races <= 1 =>
        Cardinality(Lost \cap Recent) <= (Kills + Races * (Backups \div 2 + 1)) * Full + Excess

--------------------------------------------------------------------------------
(* Why: the inductive invariant *)

\* what each place in the code takes for granted
PlacesOK ==
    \A w \in Workers :
        /\ At(w, "source") => job[w].index \in 1..(Backups - 1)
        /\ At(w, "move") => job[w].index \in 0..(Backups - 1)
        /\ At(w, "write") => job[w].fd \in Files

Active == {w \in Workers : ~At(w, "off")}

\* a rotation that runs into an exception, unless somebody creates log.txt anew
Doomed ==
    {w \in Workers :
        /\ job[w].pc \in {"oldest", "drop", "source", "move"}
        /\ \/ file[0] = None
           \/ At(w, "drop") /\ file[Backups] = None
           \/ At(w, "move") /\ file[job[w].index] = None}

\* every call that goes on was charged to an overlap, except one that is not doomed
OverlapsPay ==
    dropped + Cardinality(Active) <= overlaps + IF Active \subseteq Doomed THEN 0 ELSE 1

\* the helpers that will write to a file, as things stand
Pending(f) ==
    {w \in Workers : \/ At(w, "write") /\ job[w].fd = f
                     \/ At(w, "open") /\ file[0] = f}

RoomLeft ==
    \A f \in Files :
        Cardinality(lines[f]) + Cardinality(Pending(f)) < Full + Cardinality(Workers)

LogInv == LogTypeOK /\ PlacesOK /\ OverlapsPay /\ RoomLeft

\* without an overlap, a helper alone moves a backup to a name that is free, finds
\* what it has seen, and writes to log.txt
AloneOK ==
    Races = 0 =>
        /\ \A v, w \in Active : v = w
        /\ Doomed = {}
        /\ \A w \in Workers :
              /\ job[w].pc \in {"source", "move"} => file[job[w].index + 1] = None
              /\ At(w, "write") => job[w].fd = file[0]

\* A rotation has freed the name after its index: the backups beyond that name
\* have moved on, and log.txt has not yet followed.
Shifting(n) ==
    \E w \in Workers : job[w].pc \in {"source", "move"} /\ job[w].index + 1 < n

LinesNow == IF file[0] = None THEN 0 ELSE Cardinality(lines[file[0]])

\* without an overlap, a line in the backup n is as old as the n - 1 backups
\* before it and log.txt make it, but for one backup that each kill has left out
AgeOK ==
    Races = 0 =>
        /\ \A w \in Workers : job[w].pc \in {"oldest", "drop", "source", "move"} => LinesNow >= Full
        /\ \A n \in 1..Backups : file[n] # None => \A k \in lines[file[n]] \cap Recent :
              k + LinesNow + Full * (n - 1) <=
                  written + Full * Kills + IF Shifting(n) THEN Full ELSE 0
        /\ \A l \in Lost \cap Recent : l + Full * Backups <= written + Full * Kills

\* what was counted then, was counted by now; a file has one name
SinceOK ==
    /\ since \in [written : 0..written, crashes : 0..crashes, overlaps : 0..overlaps]
    /\ \A m, n \in Names : file[m] # None /\ file[m] = file[n] => m = n

OrderInv == SinceOK /\ AloneOK /\ (Races = 0 => InOrder) /\ AgeOK
================================================================================
