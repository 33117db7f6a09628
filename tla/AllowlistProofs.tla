---------------------------- MODULE AllowlistProofs ----------------------------
(* What becomes of the allowlist for every number of terminals, entries,   *)
(* commands and faults.                                                    *)
EXTENDS Allowlist, TLAPS, FiniteSetTheorems

--------------------------------------------------------------------------------
(* Types *)

LEMMA EditedType ==
  ASSUME NEW entries \in SUBSET ValidEntries, NEW edit \in Edits
  PROVE  Edited(entries, edit) \in SUBSET ValidEntries
  BY DEF Edited, Edits

LEMMA NoneApart == None \notin Lists /\ None \notin Edits
  BY AllowConstants DEF AllowConstants, Lists, Edits, ValidEntries

LEMMA OffType == Off \in Jobs
  BY DEF Off, Jobs

LEMMA GotoType ==
  ASSUME AllowTypeOK, NEW r \in Runs, Goto(r, "new") \/ Goto(r, "verify") \/ Goto(r, "clear") \/ Goto(r, "grant")
  PROVE  job' \in [Runs -> Jobs]
  BY DEF AllowTypeOK, Goto, Jobs

LEMMA BecomeType ==
  ASSUME AllowTypeOK, NEW r \in Runs, NEW j \in Jobs, Become(r, j)
  PROVE  job' \in [Runs -> Jobs]
  BY DEF AllowTypeOK, Become

LEMMA WantedType ==
  ASSUME AllowTypeOK, NEW r \in Runs
  PROVE  Wanted(r) \subseteq ValidEntries /\ Removed(r) \subseteq ValidEntries
<1>1. job[r].edit \in Edits \cup {None}
  BY DEF AllowTypeOK, Jobs
<1> QED
  BY <1>1 DEF AllowTypeOK, Wanted, Removed, Edits

LEMMA TypeStep == AllowTypeOK /\ [Next]_vars => AllowTypeOK'
<1> SUFFICES ASSUME AllowTypeOK, [Next]_vars PROVE AllowTypeOK'
  OBVIOUS
<1> USE AllowConstants DEF AllowConstants
<1>1. ASSUME NEW r \in Runs, EditBegins(r) PROVE AllowTypeOK'
  <2>1. PICK do \in {"add", "remove"}, e \in Entries :
          /\ Valid(e)
          /\ Become(r, [pc |-> "old", edit |-> [do |-> do, entry |-> e],
                        entries |-> Edited(list.entries, [do |-> do, entry |-> e])])
    BY <1>1 DEF EditBegins
  <2>2. [do |-> do, entry |-> e] \in Edits
    BY <2>1 DEF Edits, ValidEntries
  <2>3. list.entries \in SUBSET ValidEntries
    BY <1>1 DEF EditBegins, AllowTypeOK, Lists
  <2>4. job' \in [Runs -> Jobs]
    BY <2>1, <2>2, <2>3, EditedType, BecomeType DEF Jobs
  <2> QED
    BY <1>1, <2>4 DEF EditBegins, Begin, AllowTypeOK
<1>2. ASSUME NEW r \in Runs, InstallBegins(r) PROVE AllowTypeOK'
  <2>1. job' \in [Runs -> Jobs]
    <3>1. [Off EXCEPT !.pc = "old"] \in Jobs /\ [Off EXCEPT !.pc = "verify"] \in Jobs
      BY DEF Off, Jobs
    <3>2. Become(r, [Off EXCEPT !.pc = "old"]) \/ Become(r, [Off EXCEPT !.pc = "verify"])
      BY <1>2 DEF InstallBegins
    <3> QED
      BY <3>1, <3>2, BecomeType
  <2> QED
    BY <1>2, <2>1 DEF InstallBegins, Begin, AllowTypeOK
<1>3. ASSUME NEW r \in Runs, InstallOld(r) PROVE AllowTypeOK'
  BY <1>3, GotoType DEF InstallOld, AllowTypeOK, history
<1>4. ASSUME NEW r \in Runs, InstallNew(r) PROVE AllowTypeOK'
  <2>1. list' \in Lists
    BY <1>4 DEF InstallNew, AllowTypeOK, Jobs, Lists
  <2> QED
    BY <1>4, <2>1, GotoType, WantedType DEF InstallNew, AllowTypeOK
<1>5. ASSUME NEW r \in Runs, Ends(r) \/ Fails(r) PROVE AllowTypeOK'
  BY <1>5, OffType, BecomeType DEF Ends, Fails, AllowTypeOK, history
<1>6. ASSUME NEW r \in Runs, Verify(r) PROVE AllowTypeOK'
  BY <1>6, GotoType DEF Verify, AllowTypeOK, history
<1>7. ASSUME NEW r \in Runs, Clear(r) PROVE AllowTypeOK'
  <2>1. list' \in Lists
    BY <1>7 DEF Clear, AllowTypeOK, Lists
  <2> QED
    BY <1>7, <2>1, GotoType DEF Clear, AllowTypeOK, history
<1>8. ASSUME NEW r \in Runs, Grant(r) PROVE AllowTypeOK'
  <2>1. list' \in Lists
    BY <1>8 DEF Grant, AllowTypeOK, Lists
  <2> QED
    BY <1>8, <2>1, OffType, BecomeType DEF Grant, AllowTypeOK, history
<1>9. CASE UNCHANGED vars
  BY <1>9 DEF vars, history, AllowTypeOK
<1> QED
  BY <1>1, <1>2, <1>3, <1>4, <1>5, <1>6, <1>7, <1>8, <1>9 DEF Next, RunNext

--------------------------------------------------------------------------------
(* What only grows, and what an edit is *)

LEMMA OverlapsGrow ==
  ASSUME AllowTypeOK, [Next]_vars
  PROVE  overlaps' \in Nat /\ overlaps <= overlaps'
<1>1. ASSUME NEW r \in Runs, Begin(r) PROVE overlaps' = overlaps \/ overlaps' = overlaps + 1
  BY <1>1 DEF Begin, AllowTypeOK
<1>2. ASSUME NEW r \in Runs, RunNext(r), ~Begin(r) PROVE overlaps' = overlaps
  BY <1>2 DEF RunNext, EditBegins, InstallBegins, InstallOld, InstallNew, Ends, Verify, Clear,
              Grant, Fails, history
<1> QED
  BY <1>1, <1>2 DEF Next, vars, history, AllowTypeOK

LEMMA EmptiedGrow ==
  ASSUME AllowTypeOK, [Next]_vars
  PROVE  emptied' \in Nat /\ emptied <= emptied'
<1>1. ASSUME NEW r \in Runs, InstallNew(r) PROVE emptied' = emptied \/ emptied' = emptied + 1
  BY <1>1 DEF InstallNew, AllowTypeOK
<1>2. ASSUME NEW r \in Runs, RunNext(r), ~InstallNew(r) PROVE emptied' = emptied
  BY <1>2 DEF RunNext, EditBegins, InstallBegins, Begin, InstallOld, Ends, Verify, Clear,
              Grant, Fails, history
<1> QED
  BY <1>1, <1>2 DEF Next, vars, history, AllowTypeOK

(* The names of entries are their texts, so that an edit of the list is the *)
(* edit that was wanted.                                                    *)
LEMMA EditedIsWanted ==
  ASSUME NEW entries \in SUBSET ValidEntries, NEW edit \in Edits
  PROVE  Edited(entries, edit) =
           IF edit.do = "add" THEN entries \cup {edit.entry} ELSE entries \ {edit.entry}
  BY AllowConstants DEF AllowConstants, Edited, Edits, ValidEntries

--------------------------------------------------------------------------------
(* How many come back *)

LEMMA SetsAreFinite ==
  /\ \A S \in SUBSET ValidEntries : IsFiniteSet(S) /\ Cardinality(S) \in Nat
  /\ \A S, T \in SUBSET ValidEntries : S \subseteq T => Cardinality(S) <= Cardinality(T)
<1>1. \A S \in SUBSET ValidEntries : IsFiniteSet(S) /\ Cardinality(S) \in Nat
  <2>1. TAKE S \in SUBSET ValidEntries
  <2>2. S \subseteq Entries /\ IsFiniteSet(Entries)
    BY AllowConstants DEF ValidEntries, AllowConstants
  <2>3. IsFiniteSet(S)
    BY <2>2, FS_Subset
  <2> QED
    BY <2>3, FS_CardinalityType
<1>2. \A S, T \in SUBSET ValidEntries : S \subseteq T => Cardinality(S) <= Cardinality(T)
  BY <1>1, FS_Subset
<1> QED
  BY <1>1, <1>2

LEMMA OneMore ==
  ASSUME NEW S \in SUBSET ValidEntries, NEW T \in SUBSET ValidEntries, NEW x,
         S \subseteq T \cup {x}
  PROVE  Cardinality(S) <= Cardinality(T) + 1
<1>1. IsFiniteSet(T) /\ Cardinality(T) \in Nat /\ Cardinality(S) \in Nat
  BY SetsAreFinite
<1>2. IsFiniteSet(T \cup {x}) /\ Cardinality(T \cup {x}) <= Cardinality(T) + 1
  BY <1>1, FS_AddElement
<1>3. Cardinality(S) <= Cardinality(T \cup {x})
  BY <1>2, FS_Subset
<1>4. Cardinality(T \cup {x}) \in Nat
  BY <1>2, FS_CardinalityType
<1> QED
  BY <1>1, <1>2, <1>3, <1>4

LEMMA PendingIsFinite ==
  IsFiniteSet(Pending) /\ Cardinality(Pending) \in Nat
<1>1. Pending \subseteq Runs /\ IsFiniteSet(Runs)
  BY AllowConstants DEF Pending, AllowConstants
<1> QED
  BY <1>1, FS_Subset, FS_CardinalityType

LEMMA EnteredType ==
  ASSUME AllowTypeOK PROVE Entered \in SUBSET ValidEntries
  BY DEF AllowTypeOK, Entered, Lists

(* A step that lets go of lists in memory, or of the list, and removes      *)
(* nothing.                                                                 *)
LEMMA PaidLess ==
  ASSUME AllowTypeOK, AllowTypeOK', ComebacksPaid,
         overlaps <= overlaps', removed' = removed,
         Entered' \subseteq Entered, Pending' \subseteq Pending,
         \A r \in Pending' : job'[r].entries = job[r].entries /\ job'[r].edit = job[r].edit
  PROVE  ComebacksPaid'
<1> DEFINE n == Cardinality(Pending)
           m == Cardinality(Pending')
<1>1. overlaps \in Nat /\ overlaps' \in Nat /\ removed \in SUBSET ValidEntries
  BY DEF AllowTypeOK
<1>2. n \in Nat /\ m \in Nat /\ m <= n
  <2>1. IsFiniteSet(Pending) /\ n \in Nat
    BY PendingIsFinite
  <2> QED
    BY <2>1, FS_Subset, FS_CardinalityType
<1>3. /\ Cardinality(Entered \cap removed) \in Nat
      /\ Cardinality(Entered' \cap removed) \in Nat
      /\ Cardinality(Entered' \cap removed) <= Cardinality(Entered \cap removed)
  <2>1. (Entered \cap removed) \in SUBSET ValidEntries /\ (Entered' \cap removed) \in SUBSET ValidEntries
        /\ (Entered' \cap removed) \subseteq (Entered \cap removed)
    BY <1>1, EnteredType
  <2> QED
    BY <2>1, SetsAreFinite
<1>4. \A r \in Pending' : /\ r \in Pending /\ Removed(r)' = Removed(r)
                          /\ Cardinality(job[r].entries \cap Removed(r)) \in Nat
  <2>1. TAKE r \in Pending'
  <2>2. r \in Pending /\ r \in Runs
    BY DEF Pending
  <2>3. Removed(r)' = Removed(r)
    BY DEF Removed
  <2>4. (job[r].entries \cap Removed(r)) \in SUBSET ValidEntries
    BY <2>2 DEF AllowTypeOK, Jobs
  <2> QED
    BY <2>2, <2>3, <2>4, SetsAreFinite
<1>5. /\ Cardinality(Entered \cap removed) + (IF n = 0 THEN 0 ELSE n - 1) <= overlaps
      /\ \A r \in Pending : Cardinality(job[r].entries \cap Removed(r)) + n - 1 <= overlaps
  BY DEF ComebacksPaid
<1> HIDE DEF n, m
<1>6. Cardinality(Entered' \cap removed) + (IF m = 0 THEN 0 ELSE m - 1) <= overlaps'
  BY <1>1, <1>2, <1>3, <1>5
<1>7. \A r \in Pending' : Cardinality(job[r].entries \cap Removed(r)) + m - 1 <= overlaps'
  <2>1. TAKE r \in Pending'
  <2> DEFINE c == Cardinality(job[r].entries \cap Removed(r))
  <2>2. c \in Nat /\ r \in Pending
    BY <1>4, <2>1
  <2>3. c + n - 1 <= overlaps
    BY <1>5, <2>2
  <2> HIDE DEF c
  <2>4. c + m - 1 <= overlaps'
    BY <1>1, <1>2, <2>2, <2>3
  <2> QED
    BY <2>4 DEF c
<1>8. \A r \in Pending' : Cardinality(job'[r].entries \cap Removed(r)') + m - 1 <= overlaps'
  BY <1>4, <1>7
<1> QED
  BY <1>6, <1>8 DEF ComebacksPaid, m

(* A command that reads the list, or finds none, has a new list in memory:  *)
(* all the others that do are its overlaps.                                 *)
LEMMA PaidBegin ==
  ASSUME AllowTypeOK, AllowTypeOK', ComebacksPaid,
         NEW r \in Runs, Begin(r), removed' = removed, list' = list,
         NEW j, Become(r, j), j.pc = "old",
         job'[r].entries \cap Removed(r)' \subseteq Entered \cap removed
  PROVE  ComebacksPaid'
<1> DEFINE n == Cardinality(Pending)
<1>1. /\ overlaps \in Nat /\ overlaps' \in Nat
      /\ removed \in SUBSET ValidEntries /\ Entered \in SUBSET ValidEntries
  BY EnteredType DEF AllowTypeOK
<1>2. job'[r] = j /\ (\A s \in Runs \ {r} : job'[s] = job[s]) /\ r \notin Pending
  BY DEF Become, AllowTypeOK, Pending, Begin, At
<1>3. Pending' = Pending \cup {r}
  BY <1>2 DEF Pending
<1>4. n \in Nat /\ Cardinality(Pending') = n + 1
  BY <1>2, <1>3, PendingIsFinite, FS_AddElement
<1>5. overlaps <= overlaps' /\ (n # 0 => overlaps' = overlaps + 1)
  <2>1. CASE Pending = {}
    BY <1>1, <2>1, FS_EmptySet DEF Begin
  <2>2. CASE Pending # {}
    BY <1>1, <2>2 DEF Begin, Pending, At
  <2> QED
    BY <2>1, <2>2
<1>6. Entered' = Entered
  BY DEF Entered
<1>7. /\ Cardinality(Entered \cap removed) \in Nat
      /\ Cardinality(job'[r].entries \cap Removed(r)') \in Nat
      /\ Cardinality(job'[r].entries \cap Removed(r)') <= Cardinality(Entered \cap removed)
  <2>1. (Entered \cap removed) \in SUBSET ValidEntries
    BY <1>1
  <2> QED
    BY <2>1, SetsAreFinite
<1>8. \A s \in Pending : /\ job'[s] = job[s] /\ Removed(s)' = Removed(s)
                         /\ Cardinality(job[s].entries \cap Removed(s)) \in Nat
  <2>1. TAKE s \in Pending
  <2>2. s \in Runs /\ s # r
    BY <1>2 DEF Pending
  <2>3. (job[s].entries \cap Removed(s)) \in SUBSET ValidEntries
    BY <2>2 DEF AllowTypeOK, Jobs
  <2> QED
    BY <1>2, <2>2, <2>3, SetsAreFinite DEF Removed
<1>9. /\ Cardinality(Entered \cap removed) + (IF n = 0 THEN 0 ELSE n - 1) <= overlaps
      /\ \A s \in Pending : Cardinality(job[s].entries \cap Removed(s)) + n - 1 <= overlaps
  BY DEF ComebacksPaid
<1>10. n # 0 \/ Pending = {}
  BY PendingIsFinite, FS_EmptySet
<1> HIDE DEF n
<1>11. Cardinality(Entered \cap removed) + (n + 1 - 1) <= overlaps'
  BY <1>1, <1>4, <1>5, <1>7, <1>9
<1>12. Cardinality(job'[r].entries \cap Removed(r)') + (n + 1) - 1 <= overlaps'
  BY <1>1, <1>4, <1>7, <1>11
<1>13. \A s \in Pending : Cardinality(job'[s].entries \cap Removed(s)') + (n + 1) - 1 <= overlaps'
  <2>1. TAKE s \in Pending
  <2>2. /\ Cardinality(job[s].entries \cap Removed(s)) \in Nat
        /\ Cardinality(job[s].entries \cap Removed(s)) + n - 1 <= overlaps
    BY <1>8, <1>9
  <2>3. Cardinality(job'[s].entries \cap Removed(s)') = Cardinality(job[s].entries \cap Removed(s))
    BY <1>8
  <2>4. n # 0
    BY <1>10
  <2> QED
    BY <1>1, <1>4, <1>5, <2>2, <2>3, <2>4
<1>14. \A s \in Pending' : Cardinality(job'[s].entries \cap Removed(s)') + (n + 1) - 1 <= overlaps'
  BY <1>3, <1>12, <1>13
<1> QED
  BY <1>4, <1>6, <1>11, <1>14 DEF ComebacksPaid

(* What a command that ends may bring back by another's list is one entry,  *)
(* and then it is no longer pending.                                        *)
LEMMA PaidInstall ==
  ASSUME AllowTypeOK, AllowTypeOK', ComebacksPaid, NEW r \in Runs, InstallNew(r)
  PROVE  ComebacksPaid'
<1> DEFINE n == Cardinality(Pending)
<1>1. overlaps \in Nat /\ overlaps' = overlaps /\ removed' = Removed(r)
  BY DEF AllowTypeOK, InstallNew
<1>2. /\ r \in Pending /\ job'[r].pc = "verify" /\ \A s \in Runs \ {r} : job'[s] = job[s]
  <2>1. job \in [Runs -> Jobs] /\ job[r] \in Jobs
    BY DEF AllowTypeOK
  <2>2. r \in Pending
    BY DEF InstallNew, At, Pending
  <2>3. job'[r] = [job[r] EXCEPT !.pc = "verify"] /\ \A s \in Runs \ {r} : job'[s] = job[s]
    BY <2>1 DEF InstallNew, Goto
  <2>4. job'[r].pc = "verify"
    BY <2>1, <2>3 DEF Jobs
  <2> QED
    BY <2>2, <2>3, <2>4
<1>3. Pending' = Pending \ {r}
  BY <1>2 DEF Pending
<1>4. n \in Nat /\ Cardinality(Pending') = n - 1 /\ n # 0
  BY <1>2, <1>3, PendingIsFinite, FS_RemoveElement, FS_EmptySet
<1>5. Entered' = job[r].entries
  <2>1. job[r].entries \in SUBSET ValidEntries
    BY DEF AllowTypeOK, Jobs
  <2>2. list' = [entries |-> job[r].entries, readable |-> FALSE]
    BY DEF InstallNew
  <2>3. list' \in Lists /\ list'.entries = job[r].entries
    BY <2>1, <2>2 DEF Lists
  <2> QED
    BY <2>3, NoneApart DEF Entered
<1>6. \A s \in Pending : Cardinality(job[s].entries \cap Removed(s)) + n - 1 <= overlaps
  BY DEF ComebacksPaid
<1>7. ASSUME NEW s \in Pending'
      PROVE  Cardinality(job'[s].entries \cap Removed(s)') + (n - 1) - 1 <= overlaps'
  <2>1. s \in Runs /\ s \in Pending /\ job'[s] = job[s]
    BY <1>2, <1>3 DEF Pending
  <2>2. \E x : Removed(r) \subseteq removed \cup {x}
    BY DEF Removed
  <2>3. PICK x : Removed(r) \subseteq removed \cup {x}
    BY <2>2
  <2>4. Removed(s)' \subseteq Removed(s) \cup {x}
    BY <1>1, <2>1, <2>3 DEF Removed
  <2>5. /\ (job[s].entries \cap Removed(s)) \in SUBSET ValidEntries
        /\ (job'[s].entries \cap Removed(s)') \in SUBSET ValidEntries
        /\ (job'[s].entries \cap Removed(s)') \subseteq (job[s].entries \cap Removed(s)) \cup {x}
    BY <2>1, <2>4 DEF AllowTypeOK, Jobs
  <2>6. /\ Cardinality(job'[s].entries \cap Removed(s)') <= Cardinality(job[s].entries \cap Removed(s)) + 1
        /\ Cardinality(job'[s].entries \cap Removed(s)') \in Nat
        /\ Cardinality(job[s].entries \cap Removed(s)) \in Nat
    BY <2>5, OneMore, SetsAreFinite
  <2> HIDE DEF n
  <2> QED
    BY <1>1, <1>4, <1>6, <2>1, <2>6
<1>8. /\ Cardinality(Entered' \cap removed') + n - 1 <= overlaps'
      /\ Cardinality(Entered' \cap removed') \in Nat
  <2>1. (Entered' \cap removed') \in SUBSET ValidEntries
    BY <1>5 DEF AllowTypeOK, Jobs
  <2> HIDE DEF n
  <2> QED
    BY <1>1, <1>2, <1>5, <1>6, <2>1, SetsAreFinite
<1> HIDE DEF n
<1>9. Cardinality(Entered' \cap removed') + (IF n - 1 = 0 THEN 0 ELSE (n - 1) - 1) <= overlaps'
  BY <1>1, <1>4, <1>8
<1> QED
  BY <1>4, <1>7, <1>9 DEF ComebacksPaid

LEMMA ComebacksStep == AllowTypeOK /\ ComebacksPaid /\ [Next]_vars => ComebacksPaid'
<1> SUFFICES ASSUME AllowTypeOK, ComebacksPaid, [Next]_vars PROVE ComebacksPaid'
  OBVIOUS
<1>0. AllowTypeOK' /\ overlaps <= overlaps'
  BY TypeStep, OverlapsGrow
<1>a. ASSUME NEW r \in Runs, NEW j, Become(r, j), j.pc \notin {"old", "new"},
             removed' = removed, Entered' \subseteq Entered
      PROVE  ComebacksPaid'
  <2>1. job'[r] = j /\ \A s \in Runs \ {r} : job'[s] = job[s]
    BY <1>a DEF Become, AllowTypeOK
  <2>2. Pending' \subseteq Pending \ {r}
    BY <1>a, <2>1 DEF Pending
  <2>3. \A s \in Pending' : job'[s].entries = job[s].entries /\ job'[s].edit = job[s].edit
    BY <2>1, <2>2 DEF Pending
  <2> QED
    BY <1>0, <1>a, <2>2, <2>3, PaidLess
<1>b. ASSUME NEW r \in Runs, NEW pc \in {"verify", "clear", "grant"}, Goto(r, pc),
             removed' = removed, Entered' \subseteq Entered
      PROVE  ComebacksPaid'
  <2> DEFINE j == [job[r] EXCEPT !.pc = pc]
  <2>1. job[r] \in Jobs
    BY DEF AllowTypeOK
  <2>2. j.pc = pc
    BY <2>1 DEF Jobs
  <2>3. Become(r, j)
    BY <1>b DEF Goto, Become
  <2> HIDE DEF j
  <2> QED
    BY <1>a, <1>b, <2>2, <2>3
<1>1. ASSUME NEW r \in Runs, EditBegins(r) PROVE ComebacksPaid'
  <2>1. PICK do \in {"add", "remove"}, e \in Entries :
          /\ Valid(e)
          /\ Become(r, [pc |-> "old", edit |-> [do |-> do, entry |-> e],
                        entries |-> Edited(list.entries, [do |-> do, entry |-> e])])
    BY <1>1 DEF EditBegins
  <2> DEFINE edit == [do |-> do, entry |-> e]
             j    == [pc |-> "old", edit |-> edit, entries |-> Edited(list.entries, edit)]
  <2>2. edit \in Edits /\ edit # None /\ edit.do = do /\ edit.entry = e
    BY <2>1, NoneApart DEF Edits, ValidEntries
  <2>3. list \in Lists /\ list' = list /\ removed' = removed /\ Begin(r)
    BY <1>1 DEF EditBegins, Begin, AllowTypeOK
  <2>4. j.entries = IF edit.do = "add" THEN list.entries \cup {edit.entry}
                    ELSE list.entries \ {edit.entry}
    BY <2>2, <2>3, EditedIsWanted DEF Lists
  <2>5. Entered = list.entries
    BY <2>3, NoneApart DEF Entered
  <2>6. Become(r, j) /\ j.pc = "old" /\ j.edit = edit
    BY <2>1
  <2> HIDE DEF edit, j
  <2>7. job'[r] = j
    BY <2>6 DEF Become, AllowTypeOK
  <2>8. Removed(r)' = IF do = "remove" THEN removed \cup {e}
                      ELSE {x \in removed \ {e} : ~EntryMatches(e, x)}
    BY <2>2, <2>3, <2>6, <2>7 DEF Removed
  <2>9. job'[r].entries \cap Removed(r)' \subseteq Entered \cap removed
    BY <2>2, <2>4, <2>5, <2>7, <2>8
  <2> QED
    BY <1>0, <2>3, <2>6, <2>9, PaidBegin
<1>2. ASSUME NEW r \in Runs, InstallBegins(r) PROVE ComebacksPaid'
  <2>1. list' = list /\ removed' = removed /\ Entered' = Entered /\ Begin(r)
    BY <1>2 DEF InstallBegins, Begin, Entered
  <2>2. CASE list = None
    <3> DEFINE j == [Off EXCEPT !.pc = "old"]
    <3>1. Become(r, j)
      BY <1>2, <2>2 DEF InstallBegins
    <3>2. j.pc = "old" /\ j.entries = {}
      BY DEF Off
    <3> HIDE DEF j
    <3>3. job'[r] = j
      BY <3>1 DEF Become, AllowTypeOK
    <3> QED
      BY <1>0, <2>1, <3>1, <3>2, <3>3, PaidBegin
  <2>3. CASE list # None
    <3> DEFINE j == [Off EXCEPT !.pc = "verify"]
    <3>1. Become(r, j)
      BY <1>2, <2>3 DEF InstallBegins
    <3>2. j.pc = "verify"
      BY DEF Off
    <3> HIDE DEF j
    <3> QED
      BY <1>a, <2>1, <3>1, <3>2
  <2> QED
    BY <2>2, <2>3
<1>3. ASSUME NEW r \in Runs, InstallOld(r) PROVE ComebacksPaid'
  <2>1. list' = None /\ removed' = removed /\ Entered' \subseteq Entered
    BY <1>3 DEF InstallOld, Entered, history
  <2>2. job \in [Runs -> Jobs] /\ job[r] \in Jobs
    BY DEF AllowTypeOK
  <2>3. job'[r] = [job[r] EXCEPT !.pc = "new"] /\ \A s \in Runs \ {r} : job'[s] = job[s]
    BY <1>3, <2>2 DEF InstallOld, Goto
  <2>4. job'[r].edit = job[r].edit /\ job'[r].entries = job[r].entries /\ r \in Pending
    BY <1>3, <2>2, <2>3 DEF InstallOld, At, Pending, Jobs
  <2>5. \A s \in Pending' : s \in Runs /\ s \in Pending
    BY <2>3, <2>4 DEF Pending
  <2> QED
    BY <1>0, <2>1, <2>3, <2>4, <2>5, PaidLess
<1>4. ASSUME NEW r \in Runs, InstallNew(r) PROVE ComebacksPaid'
  BY <1>0, <1>4, PaidInstall
<1>5. ASSUME NEW r \in Runs, Ends(r) \/ Fails(r) PROVE ComebacksPaid'
  <2>1. Become(r, Off) /\ removed' = removed /\ Entered' = Entered /\ Off.pc = "off"
    BY <1>5 DEF Ends, Fails, Entered, Off, history
  <2> QED
    BY <1>a, <2>1
<1>6. ASSUME NEW r \in Runs, Verify(r) PROVE ComebacksPaid'
  BY <1>6, <1>b DEF Verify, Entered, history
<1>7. ASSUME NEW r \in Runs, Clear(r) PROVE ComebacksPaid'
  <2>1. list \in Lists /\ list' \in Lists /\ list'.entries = list.entries
    BY <1>7 DEF Clear, AllowTypeOK, Lists
  <2> QED
    BY <1>7, <1>b, <2>1, NoneApart DEF Clear, Entered, history
<1>8. ASSUME NEW r \in Runs, Grant(r) PROVE ComebacksPaid'
  <2>1. list \in Lists /\ list' \in Lists /\ list'.entries = list.entries
    BY <1>8 DEF Grant, AllowTypeOK, Lists
  <2>2. Off.pc = "off"
    BY DEF Off
  <2> QED
    BY <1>8, <1>a, <2>1, <2>2, NoneApart DEF Grant, Entered, history
<1>9. CASE UNCHANGED vars
  <2>1. /\ removed' = removed /\ Entered' = Entered /\ Pending' = Pending /\ job' = job
    BY <1>9 DEF vars, history, Entered, Pending
  <2> QED
    BY <1>0, <2>1, PaidLess
<1> QED
  BY <1>1, <1>2, <1>3, <1>4, <1>5, <1>6, <1>7, <1>8, <1>9 DEF Next, RunNext

--------------------------------------------------------------------------------
(* What the edits add up to *)

LEMMA GoesOn ==
  ASSUME AllowTypeOK, NEW r \in Runs, NEW pc \in {"new", "verify", "clear", "grant"}, Goto(r, pc)
  PROVE  /\ job'[r].pc = pc /\ job'[r].edit = job[r].edit /\ job'[r].entries = job[r].entries
         /\ \A s \in Runs \ {r} : job'[s] = job[s]
<1>1. job \in [Runs -> Jobs] /\ job[r] \in Jobs
  BY DEF AllowTypeOK
<1>2. job'[r] = [job[r] EXCEPT !.pc = pc] /\ \A s \in Runs \ {r} : job'[s] = job[s]
  BY <1>1 DEF Goto
<1> QED
  BY <1>1, <1>2 DEF Jobs

LEMMA Becomes ==
  ASSUME AllowTypeOK, NEW r \in Runs, NEW j, Become(r, j)
  PROVE  job'[r] = j /\ \A s \in Runs \ {r} : job'[s] = job[s]
  BY DEF AllowTypeOK, Become

(* What a command that begins to edit has in memory.                        *)
LEMMA EditBegun ==
  ASSUME AllowTypeOK, NEW r \in Runs, EditBegins(r)
  PROVE  /\ list \in Lists /\ list' = list /\ job'[r].pc = "old"
         /\ job'[r].edit \in Edits /\ job'[r].edit # None
         /\ job'[r].entries = Edited(list.entries, job'[r].edit)
         /\ \A s \in Runs \ {r} : job'[s] = job[s]
<1>1. PICK do \in {"add", "remove"}, e \in Entries :
        /\ Valid(e)
        /\ Become(r, [pc |-> "old", edit |-> [do |-> do, entry |-> e],
                      entries |-> Edited(list.entries, [do |-> do, entry |-> e])])
  BY DEF EditBegins
<1> DEFINE edit == [do |-> do, entry |-> e]
           j    == [pc |-> "old", edit |-> edit, entries |-> Edited(list.entries, edit)]
<1>2. edit \in Edits /\ edit # None
  BY <1>1, NoneApart DEF Edits, ValidEntries
<1>3. j.pc = "old" /\ j.edit = edit /\ j.entries = Edited(list.entries, edit) /\ Become(r, j)
  BY <1>1
<1> HIDE DEF edit, j
<1>4. job'[r] = j /\ \A s \in Runs \ {r} : job'[s] = job[s]
  BY <1>3, Becomes
<1> QED
  BY <1>2, <1>3, <1>4 DEF EditBegins, AllowTypeOK

(* What the installer begins with.                                          *)
LEMMA InstallBegun ==
  ASSUME AllowTypeOK, NEW r \in Runs, InstallBegins(r)
  PROVE  /\ list' = list /\ job'[r].pc = (IF list = None THEN "old" ELSE "verify")
         /\ job'[r].edit = None /\ job'[r].entries = {}
         /\ \A s \in Runs \ {r} : job'[s] = job[s]
<1> DEFINE j == [Off EXCEPT !.pc = IF list = None THEN "old" ELSE "verify"]
<1>1. j.pc = (IF list = None THEN "old" ELSE "verify") /\ j.edit = None /\ j.entries = {}
  BY DEF Off
<1>2. Become(r, j) /\ list' = list
  BY DEF InstallBegins
<1> HIDE DEF j
<1>3. job'[r] = j /\ \A s \in Runs \ {r} : job'[s] = job[s]
  BY <1>2, Becomes
<1> QED
  BY <1>1, <1>2, <1>3

LEMMA OffIs == Off.pc = "off" /\ Off.edit = None /\ Off.entries = {}
  BY DEF Off

LEMMA TemplateStep == AllowTypeOK /\ TemplateIsEmpty /\ [Next]_vars => TemplateIsEmpty'
<1> SUFFICES ASSUME AllowTypeOK, TemplateIsEmpty, [Next]_vars PROVE TemplateIsEmpty'
  OBVIOUS
<1>1. ASSUME NEW r \in Runs, EditBegins(r) PROVE TemplateIsEmpty'
  BY <1>1, EditBegun DEF TemplateIsEmpty
<1>2. ASSUME NEW r \in Runs, InstallBegins(r) PROVE TemplateIsEmpty'
  BY <1>2, InstallBegun DEF TemplateIsEmpty
<1>3. ASSUME NEW r \in Runs, InstallOld(r) \/ InstallNew(r) \/ Verify(r) \/ Clear(r)
      PROVE  TemplateIsEmpty'
  <2>1. \E pc \in {"new", "verify", "clear", "grant"} : Goto(r, pc)
    BY <1>3 DEF InstallOld, InstallNew, Verify, Clear
  <2> QED
    BY <2>1, GoesOn DEF TemplateIsEmpty
<1>4. ASSUME NEW r \in Runs, Ends(r) \/ Grant(r) \/ Fails(r) PROVE TemplateIsEmpty'
  <2>1. Become(r, Off)
    BY <1>4 DEF Ends, Grant, Fails
  <2> QED
    BY <2>1, Becomes, OffIs DEF TemplateIsEmpty
<1>5. CASE UNCHANGED vars
  BY <1>5 DEF vars, TemplateIsEmpty
<1> QED
  BY <1>1, <1>2, <1>3, <1>4, <1>5 DEF Next, RunNext

LEMMA ApartType ==
  ASSUME AllowTypeOK
  PROVE  /\ list # None => /\ Apart(list.entries, wanted) \in SUBSET ValidEntries
                           /\ Cardinality(Apart(list.entries, wanted)) \in Nat
         /\ \A r \in Runs : /\ Apart(job[r].entries, Wanted(r)) \in SUBSET ValidEntries
                            /\ Cardinality(Apart(job[r].entries, Wanted(r))) \in Nat
<1>1. list # None => Apart(list.entries, wanted) \in SUBSET ValidEntries
  BY DEF AllowTypeOK, Lists, Apart
<1>2. ASSUME NEW r \in Runs PROVE Apart(job[r].entries, Wanted(r)) \in SUBSET ValidEntries
  BY WantedType DEF AllowTypeOK, Jobs, Apart
<1> QED
  BY <1>1, <1>2, SetsAreFinite

(* A step that changes nothing on the list and in memory but lets go of it. *)
LEMMA EditsLess ==
  ASSUME AllowTypeOK, AllowTypeOK', EditsPaid,
         overlaps <= overlaps', wanted' = wanted, emptied' = emptied,
         list' # None => list # None /\ list'.entries = list.entries,
         Pending' \subseteq Pending,
         \A r \in Pending' : job'[r].entries = job[r].entries /\ job'[r].edit = job[r].edit
  PROVE  EditsPaid'
<1> SUFFICES ASSUME emptied = 0 PROVE EditsPaid'
  BY DEF EditsPaid
<1> DEFINE n == Cardinality(Pending)
           m == Cardinality(Pending')
<1>1. overlaps \in Nat /\ overlaps' \in Nat
  BY DEF AllowTypeOK
<1>2. n \in Nat /\ m \in Nat /\ m <= n
  <2>1. IsFiniteSet(Pending) /\ n \in Nat
    BY PendingIsFinite
  <2> QED
    BY <2>1, FS_Subset, FS_CardinalityType
<1>3. \A r \in Pending' : r \in Pending /\ r \in Runs /\ Wanted(r)' = Wanted(r)
  BY DEF Pending, Wanted
<1>4. /\ list # None => Cardinality(Apart(list.entries, wanted)) + (IF n = 0 THEN 0 ELSE n - 1) <= overlaps
      /\ \A r \in Pending : job[r].edit # None =>
            Cardinality(Apart(job[r].entries, Wanted(r))) + n - 1 <= overlaps
  BY DEF EditsPaid
<1> HIDE DEF n, m
<1>5. list' # None =>
        Cardinality(Apart(list'.entries, wanted')) + (IF m = 0 THEN 0 ELSE m - 1) <= overlaps'
  <2> SUFFICES ASSUME list' # None
               PROVE  Cardinality(Apart(list.entries, wanted)) + (IF m = 0 THEN 0 ELSE m - 1) <= overlaps'
    OBVIOUS
  <2> QED
    BY <1>1, <1>2, <1>4, ApartType
<1>6. ASSUME NEW r \in Pending', job'[r].edit # None
      PROVE  Cardinality(Apart(job'[r].entries, Wanted(r)')) + m - 1 <= overlaps'
  <2> DEFINE c == Cardinality(Apart(job[r].entries, Wanted(r)))
  <2>1. c \in Nat /\ c + n - 1 <= overlaps
    BY <1>3, <1>4, <1>6, ApartType
  <2>2. Cardinality(Apart(job'[r].entries, Wanted(r)')) = c
    BY <1>3, <1>6
  <2> HIDE DEF c
  <2> QED
    BY <1>1, <1>2, <2>1, <2>2
<1> QED
  BY <1>5, <1>6 DEF EditsPaid, m

(* A command that has read the list, or found none, has what it is about to *)
(* install apart from what will be wanted by no more than the list was.     *)
LEMMA EditsBegin ==
  ASSUME AllowTypeOK, AllowTypeOK', EditsPaid,
         NEW r \in Runs, Begin(r), list' = list, job'[r].pc = "old",
         \A s \in Runs \ {r} : job'[s] = job[s],
         job'[r].edit # None =>
           list # None /\ Apart(job'[r].entries, Wanted(r)') \subseteq Apart(list.entries, wanted)
  PROVE  EditsPaid'
<1> DEFINE n == Cardinality(Pending)
<1>0. wanted' = wanted /\ emptied' = emptied
  BY DEF Begin
<1> SUFFICES ASSUME emptied = 0 PROVE EditsPaid'
  BY <1>0 DEF EditsPaid
<1>1. overlaps \in Nat /\ overlaps' \in Nat
  BY DEF AllowTypeOK
<1>2. r \notin Pending /\ Pending' = Pending \cup {r}
  BY DEF Pending, Begin, At
<1>3. n \in Nat /\ Cardinality(Pending') = n + 1 /\ (n # 0 \/ Pending = {})
  BY <1>2, PendingIsFinite, FS_AddElement, FS_EmptySet
<1>4. overlaps <= overlaps' /\ (n # 0 => overlaps' = overlaps + 1)
  <2>1. CASE Pending = {}
    BY <1>1, <2>1, FS_EmptySet DEF Begin
  <2>2. CASE Pending # {}
    BY <1>1, <2>2 DEF Begin, Pending, At
  <2> QED
    BY <2>1, <2>2
<1>5. /\ list # None => Cardinality(Apart(list.entries, wanted)) + (IF n = 0 THEN 0 ELSE n - 1) <= overlaps
      /\ \A s \in Pending : job[s].edit # None =>
            Cardinality(Apart(job[s].entries, Wanted(s))) + n - 1 <= overlaps
  BY DEF EditsPaid
<1>6. ASSUME job'[r].edit # None
      PROVE  /\ Cardinality(Apart(job'[r].entries, Wanted(r)')) <= Cardinality(Apart(list.entries, wanted))
             /\ Cardinality(Apart(job'[r].entries, Wanted(r)')) \in Nat
  <2>1. Apart(list.entries, wanted) \in SUBSET ValidEntries
    BY <1>6, ApartType
  <2>2. Apart(job'[r].entries, Wanted(r)') \in SUBSET ValidEntries
    BY <1>6, <2>1
  <2> QED
    BY <1>6, <2>1, <2>2, SetsAreFinite
<1> HIDE DEF n
<1>7. list # None => Cardinality(Apart(list.entries, wanted)) + (n + 1) - 1 <= overlaps'
  BY <1>1, <1>3, <1>4, <1>5, ApartType
<1>8. ASSUME NEW s \in Pending', job'[s].edit # None
      PROVE  Cardinality(Apart(job'[s].entries, Wanted(s)')) + (n + 1) - 1 <= overlaps'
  <2>1. CASE s = r
    <3>1. Cardinality(Apart(list.entries, wanted)) \in Nat /\ list # None
      BY <1>8, <2>1, ApartType
    <3> QED
      BY <1>1, <1>3, <1>6, <1>7, <1>8, <2>1, <3>1
  <2>2. CASE s # r
    <3> DEFINE c == Cardinality(Apart(job[s].entries, Wanted(s)))
    <3>1. s \in Pending /\ s \in Runs /\ job'[s] = job[s]
      BY <1>2, <2>2 DEF Pending
    <3>2. Wanted(s)' = Wanted(s)
      BY <1>0, <3>1 DEF Wanted
    <3>3. n # 0
      BY <1>3, <3>1
    <3>4. c \in Nat /\ c + n - 1 <= overlaps
      BY <1>5, <1>8, <3>1, ApartType
    <3>5. Cardinality(Apart(job'[s].entries, Wanted(s)')) = c
      BY <3>1, <3>2
    <3> HIDE DEF c
    <3> QED
      BY <1>1, <1>3, <1>4, <3>3, <3>4, <3>5
  <2> QED
    BY <2>1, <2>2
<1>9. list' # None =>
        Cardinality(Apart(list'.entries, wanted')) + (IF n + 1 = 0 THEN 0 ELSE (n + 1) - 1) <= overlaps'
  BY <1>0, <1>3, <1>7
<1> QED
  BY <1>3, <1>8, <1>9 DEF EditsPaid

(* An edit that is installed undoes at most one entry of every other one    *)
(* that is about to be, and is one less of them.                            *)
LEMMA EditsInstall ==
  ASSUME AllowTypeOK, AllowTypeOK', ComebacksPaid, TemplateIsEmpty, EditsPaid,
         NEW r \in Runs, InstallNew(r)
  PROVE  EditsPaid'
<1> DEFINE n == Cardinality(Pending)
<1>0. emptied' = emptied + (IF job[r].edit = None /\ wanted # {} THEN 1 ELSE 0) /\ emptied \in Nat
  BY DEF InstallNew, AllowTypeOK
<1> SUFFICES ASSUME emptied = 0, job[r].edit = None => wanted = {} PROVE EditsPaid'
  BY <1>0 DEF EditsPaid
<1>1. overlaps \in Nat /\ overlaps' = overlaps /\ wanted' = Wanted(r)
  BY DEF AllowTypeOK, InstallNew
<1>2. /\ r \in Pending /\ job'[r].pc = "verify" /\ \A s \in Runs \ {r} : job'[s] = job[s]
  BY GoesOn DEF InstallNew, At, Pending
<1>3. Pending' = Pending \ {r}
  BY <1>2 DEF Pending
<1>4. n \in Nat /\ Cardinality(Pending') = n - 1 /\ n # 0
  BY <1>2, <1>3, PendingIsFinite, FS_RemoveElement, FS_EmptySet
<1>5. list'.entries = job[r].entries
  BY DEF InstallNew
<1>6. \A s \in Pending : job[s].edit # None =>
            Cardinality(Apart(job[s].entries, Wanted(s))) + n - 1 <= overlaps
  BY DEF EditsPaid
<1>7. /\ Cardinality(Apart(list'.entries, wanted')) + n - 1 <= overlaps'
      /\ Cardinality(Apart(list'.entries, wanted')) \in Nat
  <2>1. CASE job[r].edit = None
    <3>1. job[r].entries = {} /\ Wanted(r) = {}
      BY <2>1 DEF TemplateIsEmpty, Wanted
    <3>2. Apart(list'.entries, wanted') = {}
      BY <1>1, <1>5, <3>1 DEF Apart
    <3>3. Cardinality(job[r].entries \cap Removed(r)) + n - 1 <= overlaps
      BY <1>2 DEF ComebacksPaid
    <3>4. job[r].entries \cap Removed(r) = {}
      BY <3>1
    <3>5. Cardinality(Apart(list'.entries, wanted')) = 0
      BY <3>2, FS_EmptySet
    <3>6. Cardinality(job[r].entries \cap Removed(r)) = 0
      BY <3>4, FS_EmptySet
    <3> HIDE DEF n
    <3> QED
      BY <1>1, <1>4, <3>3, <3>5, <3>6
  <2>2. CASE job[r].edit # None
    <3>1. Cardinality(Apart(job[r].entries, Wanted(r))) + n - 1 <= overlaps
      BY <1>2, <1>6, <2>2
    <3> QED
      BY <1>1, <1>5, <3>1, ApartType
  <2> QED
    BY <2>1, <2>2
<1>8. ASSUME NEW s \in Pending', job'[s].edit # None
      PROVE  Cardinality(Apart(job'[s].entries, Wanted(s)')) + (n - 1) - 1 <= overlaps'
  <2>1. s \in Runs /\ s \in Pending /\ job'[s] = job[s]
    BY <1>2, <1>3 DEF Pending
  <2>2. \E x : Wanted(r) \subseteq wanted \cup {x} /\ wanted \subseteq Wanted(r) \cup {x}
    BY DEF Wanted
  <2>3. PICK x : Wanted(r) \subseteq wanted \cup {x} /\ wanted \subseteq Wanted(r) \cup {x}
    BY <2>2
  <2>4. Wanted(s)' \subseteq Wanted(s) \cup {x} /\ Wanted(s) \subseteq Wanted(s)' \cup {x}
    BY <1>1, <2>1, <2>3 DEF Wanted
  <2>5. Apart(job'[s].entries, Wanted(s)') \subseteq Apart(job[s].entries, Wanted(s)) \cup {x}
    BY <2>1, <2>4 DEF Apart
  <2>6. Apart(job[s].entries, Wanted(s)) \in SUBSET ValidEntries
    BY <2>1, ApartType
  <2>7. Wanted(s)' \subseteq ValidEntries /\ job[s].entries \in SUBSET ValidEntries
    <3>1. job[s].edit \in Edits \cup {None} /\ wanted' \subseteq ValidEntries
          /\ job[s].entries \in SUBSET ValidEntries
      BY <2>1 DEF AllowTypeOK, Jobs
    <3> QED
      BY <2>1, <3>1 DEF Wanted, Edits
  <2>8. Apart(job'[s].entries, Wanted(s)') \in SUBSET ValidEntries
    BY <2>1, <2>7 DEF Apart
  <2>9. /\ Cardinality(Apart(job'[s].entries, Wanted(s)')) <= Cardinality(Apart(job[s].entries, Wanted(s))) + 1
        /\ Cardinality(Apart(job'[s].entries, Wanted(s)')) \in Nat
        /\ Cardinality(Apart(job[s].entries, Wanted(s))) \in Nat
    BY <2>5, <2>6, <2>8, OneMore, SetsAreFinite
  <2>10. Cardinality(Apart(job[s].entries, Wanted(s))) + n - 1 <= overlaps
    BY <1>6, <1>8, <2>1
  <2> HIDE DEF n
  <2> QED
    BY <1>1, <1>4, <2>9, <2>10
<1> HIDE DEF n
<1>9. Cardinality(Apart(list'.entries, wanted')) + (IF n - 1 = 0 THEN 0 ELSE (n - 1) - 1) <= overlaps'
  BY <1>1, <1>4, <1>7
<1> QED
  BY <1>4, <1>8, <1>9 DEF EditsPaid

LEMMA EditsStep ==
  AllowTypeOK /\ ComebacksPaid /\ TemplateIsEmpty /\ EditsPaid /\ [Next]_vars => EditsPaid'
<1> SUFFICES ASSUME AllowTypeOK, ComebacksPaid, TemplateIsEmpty, EditsPaid, [Next]_vars
             PROVE  EditsPaid'
  OBVIOUS
<1>0. AllowTypeOK' /\ overlaps <= overlaps'
  BY TypeStep, OverlapsGrow
<1>1. ASSUME NEW r \in Runs, EditBegins(r) PROVE EditsPaid'
  <2> DEFINE edit == job'[r].edit
  <2>1. /\ list \in Lists /\ list' = list /\ job'[r].pc = "old" /\ edit \in Edits /\ edit # None
        /\ job'[r].entries = Edited(list.entries, edit)
        /\ \A s \in Runs \ {r} : job'[s] = job[s]
    BY <1>1, EditBegun
  <2>2. Begin(r) /\ wanted' = wanted
    BY <1>1 DEF EditBegins, Begin
  <2>3. Wanted(r)' = IF edit.do = "add" THEN wanted \cup {edit.entry} ELSE wanted \ {edit.entry}
    BY <2>1, <2>2 DEF Wanted
  <2>4. job'[r].entries = IF edit.do = "add" THEN list.entries \cup {edit.entry}
                          ELSE list.entries \ {edit.entry}
    BY <2>1, EditedIsWanted DEF Lists
  <2>5. Apart(job'[r].entries, Wanted(r)') \subseteq Apart(list.entries, wanted)
    BY <2>3, <2>4 DEF Apart
  <2>6. list # None
    BY <2>1, NoneApart
  <2> QED
    BY <1>0, <2>1, <2>2, <2>5, <2>6, EditsBegin
<1>2. ASSUME NEW r \in Runs, InstallBegins(r) PROVE EditsPaid'
  <2>1. /\ list' = list /\ job'[r].pc = (IF list = None THEN "old" ELSE "verify")
        /\ job'[r].edit = None /\ \A s \in Runs \ {r} : job'[s] = job[s]
    BY <1>2, InstallBegun
  <2>2. Begin(r) /\ wanted' = wanted /\ emptied' = emptied
    BY <1>2 DEF InstallBegins, Begin
  <2>3. CASE list = None
    BY <1>0, <2>1, <2>2, <2>3, EditsBegin
  <2>4. CASE list # None
    <3>1. Pending' = Pending /\ r \notin Pending
      BY <2>1, <2>2, <2>4 DEF Pending, Begin, At
    <3>2. \A s \in Pending' : job'[s] = job[s]
      BY <2>1, <3>1 DEF Pending
    <3> QED
      BY <1>0, <2>1, <2>2, <3>1, <3>2, EditsLess
  <2> QED
    BY <2>3, <2>4
<1>3. ASSUME NEW r \in Runs, InstallOld(r) PROVE EditsPaid'
  <2>1. /\ job'[r].pc = "new" /\ job'[r].edit = job[r].edit /\ job'[r].entries = job[r].entries
        /\ \A s \in Runs \ {r} : job'[s] = job[s]
    BY <1>3, GoesOn DEF InstallOld
  <2>2. Pending' = Pending /\ r \in Pending
    BY <1>3, <2>1 DEF Pending, InstallOld, At
  <2>3. \A s \in Pending' : job'[s].entries = job[s].entries /\ job'[s].edit = job[s].edit
    BY <2>1, <2>2 DEF Pending
  <2>4. list' = None /\ wanted' = wanted /\ emptied' = emptied
    BY <1>3 DEF InstallOld, history
  <2> QED
    BY <1>0, <2>2, <2>3, <2>4, EditsLess
<1>4. ASSUME NEW r \in Runs, InstallNew(r) PROVE EditsPaid'
  BY <1>0, <1>4, EditsInstall
<1>5. ASSUME NEW r \in Runs, Ends(r) \/ Fails(r) PROVE EditsPaid'
  <2>1. job'[r].pc = "off" /\ \A s \in Runs \ {r} : job'[s] = job[s]
    BY <1>5, Becomes, OffIs DEF Ends, Fails
  <2>2. list' = list /\ wanted' = wanted /\ emptied' = emptied
    BY <1>5 DEF Ends, Fails, history
  <2>3. Pending' \subseteq Pending /\ \A s \in Pending' : job'[s] = job[s]
    BY <2>1 DEF Pending
  <2> QED
    BY <1>0, <2>2, <2>3, EditsLess
<1>6. ASSUME NEW r \in Runs, Verify(r) \/ Clear(r) \/ Grant(r) PROVE EditsPaid'
  <2>1. job'[r].pc \in {"off", "clear", "grant"} /\ \A s \in Runs \ {r} : job'[s] = job[s]
    BY <1>6, Becomes, OffIs, GoesOn DEF Verify, Clear, Grant
  <2>2. wanted' = wanted /\ emptied' = emptied /\ list # None
    BY <1>6 DEF Verify, Clear, Grant, history
  <2>3. list'.entries = list.entries
    BY <1>6, <2>2 DEF Verify, Clear, Grant, AllowTypeOK, Lists
  <2>4. Pending' \subseteq Pending /\ \A s \in Pending' : job'[s] = job[s]
    BY <2>1 DEF Pending
  <2> QED
    BY <1>0, <2>2, <2>3, <2>4, EditsLess
<1>7. CASE UNCHANGED vars
  <2>1. wanted' = wanted /\ emptied' = emptied /\ list' = list /\ job' = job /\ Pending' = Pending
    BY <1>7 DEF vars, history, Pending
  <2> QED
    BY <1>0, <2>1, EditsLess
<1> QED
  BY <1>1, <1>2, <1>3, <1>4, <1>5, <1>6, <1>7 DEF Next, RunNext

--------------------------------------------------------------------------------
(* What empties the list *)

LEMMA TemplatesFinite ==
  /\ IsFiniteSet(Templates) /\ Cardinality(Templates) \in Nat
  /\ Cardinality(Templates) = 0 <=> Templates = {}
<1>1. IsFiniteSet(Templates)
  BY PendingIsFinite, FS_Subset DEF Templates
<1> QED
  BY <1>1, FS_CardinalityType, FS_EmptySet

LEMMA GapFirst ==
  /\ Gap \in {0, 1} /\ First \in {0, 1}
  /\ Templates # {} => Gap = 0
  /\ list # None => Gap = 0
  /\ Gap = 1 => wanted # {}
  /\ First = 1 => Templates # {} /\ wanted = {}
  BY DEF Gap, First

(* A step after which the same templates are on their way, and which makes  *)
(* no gap of which none was.                                                *)
LEMMA TemplatesSame ==
  ASSUME AllowTypeOK, AllowTypeOK', TemplatesPaid,
         Templates' = Templates, Gap' <= Gap, emptied' = emptied,
         holes <= holes', overlaps <= overlaps',
         overlaps < overlaps' \/ First <= First'
  PROVE  TemplatesPaid'
<1> DEFINE T == Cardinality(Templates)
<1>1. /\ T \in Nat /\ emptied \in Nat
      /\ holes \in Nat /\ holes' \in Nat /\ overlaps \in Nat /\ overlaps' \in Nat
  BY TemplatesFinite DEF AllowTypeOK
<1>2. emptied + T + Gap <= holes + overlaps + First
  BY DEF TemplatesPaid
<1>3. Gap \in {0, 1} /\ First \in {0, 1}
  BY GapFirst
<1>4. (Gap' = 0 \/ Gap' = 1) /\ (First' = 0 \/ First' = 1)
  BY DEF Gap, First
<1>5. Cardinality(Templates') = T
  OBVIOUS
<1> HIDE DEF T
<1>6. emptied' + T + Gap' <= holes' + overlaps' + First'
  BY <1>1, <1>2, <1>3, <1>4
<1> QED
  BY <1>5, <1>6 DEF TemplatesPaid

(* One template less on its way, because its installer died.                *)
LEMMA TemplateGone ==
  ASSUME AllowTypeOK, AllowTypeOK', TemplatesPaid,
         NEW r \in Templates, Templates' = Templates \ {r}, wanted' = wanted,
         overlaps' = overlaps, holes <= holes', emptied' = emptied
  PROVE  TemplatesPaid'
<1> DEFINE T == Cardinality(Templates)
<1>1. /\ T \in Nat /\ emptied \in Nat
      /\ holes \in Nat /\ holes' \in Nat /\ overlaps \in Nat
  BY TemplatesFinite DEF AllowTypeOK
<1>2. emptied + T + Gap <= holes + overlaps + First
  BY DEF TemplatesPaid
<1>3. Cardinality(Templates') = T - 1
  BY TemplatesFinite, FS_RemoveElement
<1>4. Gap = 0 /\ First \in {0, 1} /\ (First = 1 => wanted = {})
  BY GapFirst
<1>5. (Gap' = 0 \/ Gap' = 1) /\ (First' = 0 \/ First' = 1) /\ (Gap' = 1 => wanted # {})
  BY DEF Gap, First
<1> HIDE DEF T
<1>6. emptied' + (T - 1) + Gap' <= holes' + overlaps' + First'
  BY <1>1, <1>2, <1>4, <1>5
<1> QED
  BY <1>3, <1>6 DEF TemplatesPaid

LEMMA TemplateBegins ==
  ASSUME AllowTypeOK, AllowTypeOK', TemplatesPaid,
         NEW r \in Runs, Begin(r), list = None, list' = list,
         job'[r].pc = "old", job'[r].edit = None, \A s \in Runs \ {r} : job'[s] = job[s]
  PROVE  TemplatesPaid'
<1> DEFINE T == Cardinality(Templates)
<1>1. /\ T \in Nat /\ emptied \in Nat /\ holes \in Nat /\ overlaps \in Nat
      /\ emptied' = emptied /\ holes' = holes /\ wanted' = wanted
      /\ job[r].pc = "off"
  BY TemplatesFinite DEF AllowTypeOK, Begin, At
<1>2. emptied + T + Gap <= holes + overlaps + First
  BY DEF TemplatesPaid
<1>3. r \notin Pending /\ Pending' = Pending \cup {r}
  BY <1>1 DEF Pending
<1>4. r \notin Templates /\ Templates' = Templates \cup {r}
  BY <1>3 DEF Templates, Pending
<1>5. Cardinality(Templates') = T + 1
  BY <1>4, TemplatesFinite, FS_AddElement
<1>6. Gap' = 0 /\ Gap \in {0, 1} /\ First \in {0, 1} /\ (First' = 0 \/ First' = 1)
  BY <1>4 DEF Gap, First
<1>7. First <= First'
  BY <1>1, <1>3, <1>4 DEF First
<1>8. CASE \A s \in Runs : At(s, "off")
  <2>1. overlaps' = overlaps
    BY <1>1, <1>8 DEF Begin
  <2>2. Pending = {} /\ Templates = {} /\ T = 0 /\ First = 0
    BY <1>8, TemplatesFinite DEF Pending, Templates, At, First
  <2>3. wanted # {} => Gap = 1
    BY <1>8, <2>2 DEF Gap, At
  <2>4. wanted = {} => First' = 1
    BY <1>1, <1>3, <1>4, <2>2 DEF First
  <2> HIDE DEF T
  <2>5. emptied' + (T + 1) + Gap' <= holes' + overlaps' + First'
    BY <1>1, <1>2, <1>6, <2>1, <2>2, <2>3, <2>4
  <2> QED
    BY <1>5, <2>5 DEF TemplatesPaid
<1>9. CASE ~\A s \in Runs : At(s, "off")
  <2>1. overlaps' = overlaps + 1
    BY <1>9 DEF Begin
  <2> HIDE DEF T
  <2>2. emptied' + (T + 1) + Gap' <= holes' + overlaps' + First'
    BY <1>1, <1>2, <1>6, <1>7, <2>1
  <2> QED
    BY <1>5, <2>2 DEF TemplatesPaid
<1> QED
  BY <1>8, <1>9

LEMMA TemplateInstalled ==
  ASSUME AllowTypeOK, AllowTypeOK', TemplatesPaid,
         NEW r \in Runs, InstallNew(r), job[r].edit = None
  PROVE  TemplatesPaid'
<1> DEFINE T == Cardinality(Templates)
<1>1. /\ T \in Nat /\ emptied \in Nat /\ holes \in Nat /\ overlaps \in Nat
      /\ emptied' = emptied + (IF wanted # {} THEN 1 ELSE 0)
      /\ holes' = holes /\ overlaps' = overlaps /\ wanted' = wanted
  BY TemplatesFinite DEF AllowTypeOK, InstallNew, Wanted
<1>2. /\ job[r].pc = "new" /\ job'[r].pc = "verify" /\ \A s \in Runs \ {r} : job'[s] = job[s]
  BY GoesOn DEF InstallNew, At
<1>3. r \in Templates /\ Templates' = Templates \ {r}
  BY <1>2 DEF Templates, Pending
<1>4. Cardinality(Templates') = T - 1
  BY <1>3, TemplatesFinite, FS_RemoveElement
<1>5. emptied + T + Gap <= holes + overlaps + First
  BY DEF TemplatesPaid
<1>6. list' # None
  <2>1. list' \in Lists
    BY DEF InstallNew, AllowTypeOK, Jobs, Lists
  <2> QED
    BY <2>1, NoneApart
<1>7. Gap = 0 /\ First \in {0, 1} /\ (First = 1 => wanted = {})
  BY <1>3, GapFirst
<1>8. Gap' = 0 /\ (First' = 0 \/ First' = 1)
  BY <1>6 DEF Gap, First
<1> HIDE DEF T
<1>9. emptied' + (T - 1) + Gap' <= holes' + overlaps' + First'
  BY <1>1, <1>5, <1>7, <1>8
<1> QED
  BY <1>4, <1>9 DEF TemplatesPaid

(* A command that dies in the middle opens a gap, and is counted for it.    *)
LEMMA GapOpens ==
  ASSUME AllowTypeOK, AllowTypeOK', TemplatesPaid,
         NEW r \in Runs, Fails(r), job[r].edit # None, At(r, "new"), list = None
  PROVE  TemplatesPaid'
<1> DEFINE T == Cardinality(Templates)
<1>1. /\ T \in Nat /\ emptied \in Nat /\ holes \in Nat /\ overlaps \in Nat
      /\ emptied' = emptied /\ holes' = holes + 1 /\ overlaps' = overlaps
  BY TemplatesFinite DEF AllowTypeOK, Fails
<1>2. job'[r].pc = "off" /\ \A s \in Runs \ {r} : job'[s] = job[s]
  BY Becomes, OffIs DEF Fails
<1>3. Templates' = Templates /\ Pending # Templates
  BY <1>2 DEF Templates, Pending, At
<1>4. emptied + T + Gap <= holes + overlaps + First /\ Gap \in {0, 1} /\ First = 0
  BY <1>3, GapFirst DEF TemplatesPaid, First
<1>5. (Gap' = 0 \/ Gap' = 1) /\ (First' = 0 \/ First' = 1) /\ Cardinality(Templates') = T
  BY <1>3 DEF Gap, First
<1> HIDE DEF T
<1>6. emptied' + T + Gap' <= holes' + overlaps' + First'
  BY <1>1, <1>4, <1>5
<1> QED
  BY <1>5, <1>6 DEF TemplatesPaid

LEMMA TemplatesStep == AllowTypeOK /\ TemplatesPaid /\ [Next]_vars => TemplatesPaid'
<1> SUFFICES ASSUME AllowTypeOK, TemplatesPaid, [Next]_vars PROVE TemplatesPaid'
  OBVIOUS
<1>0. /\ AllowTypeOK' /\ overlaps <= overlaps'
      /\ holes \in Nat /\ overlaps \in Nat /\ overlaps' \in Nat
  BY TypeStep, OverlapsGrow DEF AllowTypeOK
<1>1. ASSUME NEW r \in Runs, EditBegins(r) PROVE TemplatesPaid'
  <2>1. /\ list \in Lists /\ list' = list /\ job'[r].pc = "old" /\ job'[r].edit # None
        /\ \A s \in Runs \ {r} : job'[s] = job[s]
    BY <1>1, EditBegun
  <2>2. Begin(r) /\ wanted' = wanted /\ emptied' = emptied /\ holes' = holes /\ job[r].pc = "off"
    BY <1>1 DEF EditBegins, Begin, At
  <2>3. Templates' = Templates
    BY <2>1, <2>2 DEF Templates, Pending
  <2>4. Gap' <= Gap
    BY <2>1, NoneApart DEF Gap
  <2>5. overlaps < overlaps' \/ First <= First'
    BY <1>0, <2>2 DEF Begin, At, Templates, Pending, First
  <2> QED
    BY <1>0, <2>2, <2>3, <2>4, <2>5, TemplatesSame
<1>2. ASSUME NEW r \in Runs, InstallBegins(r) PROVE TemplatesPaid'
  <2>1. /\ list' = list /\ job'[r].pc = (IF list = None THEN "old" ELSE "verify")
        /\ job'[r].edit = None /\ \A s \in Runs \ {r} : job'[s] = job[s]
    BY <1>2, InstallBegun
  <2>2. Begin(r) /\ wanted' = wanted /\ emptied' = emptied /\ holes' = holes /\ job[r].pc = "off"
    BY <1>2 DEF InstallBegins, Begin, At
  <2>3. CASE list = None
    BY <1>0, <2>1, <2>2, <2>3, TemplateBegins
  <2>4. CASE list # None
    <3>1. Pending' = Pending /\ Templates' = Templates
      BY <2>1, <2>2, <2>4 DEF Templates, Pending
    <3>2. Gap' <= Gap /\ First <= First'
      BY <2>1, <2>2, <2>4, <3>1 DEF Gap, First
    <3> QED
      BY <1>0, <2>2, <3>1, <3>2, TemplatesSame
  <2> QED
    BY <2>3, <2>4
<1>3. ASSUME NEW r \in Runs, InstallOld(r) PROVE TemplatesPaid'
  <2>1. /\ job'[r].pc = "new" /\ job'[r].edit = job[r].edit
        /\ \A s \in Runs \ {r} : job'[s] = job[s]
    BY <1>3, GoesOn DEF InstallOld
  <2>2. Pending' = Pending /\ Templates' = Templates
    BY <1>3, <2>1 DEF Templates, Pending, InstallOld, At
  <2>3. wanted' = wanted /\ emptied' = emptied /\ holes' = holes
    BY <1>3 DEF InstallOld, history
  <2>4. Gap' <= Gap /\ First <= First'
    BY <2>1, <2>2, <2>3 DEF Gap, At, First
  <2> QED
    BY <1>0, <2>2, <2>3, <2>4, TemplatesSame
<1>4. ASSUME NEW r \in Runs, InstallNew(r) PROVE TemplatesPaid'
  <2>1. CASE job[r].edit = None
    BY <1>0, <1>4, <2>1, TemplateInstalled
  <2>2. CASE job[r].edit # None
    <3>1. /\ job[r].pc = "new" /\ job'[r].pc = "verify" /\ \A s \in Runs \ {r} : job'[s] = job[s]
      BY <1>4, GoesOn DEF InstallNew, At
    <3>2. Templates' = Templates /\ Pending # Templates
      BY <2>2, <3>1 DEF Templates, Pending
    <3>3. list' # None
      <4>1. list' \in Lists
        BY <1>4 DEF InstallNew, AllowTypeOK, Jobs, Lists
      <4> QED
        BY <4>1, NoneApart
    <3>4. Gap' <= Gap /\ First <= First'
      BY <3>2, <3>3 DEF Gap, First
    <3>5. emptied' = emptied /\ holes' = holes
      BY <1>4, <2>2 DEF InstallNew, AllowTypeOK
    <3> QED
      BY <1>0, <3>2, <3>4, <3>5, TemplatesSame
  <2> QED
    BY <2>1, <2>2
<1>5. ASSUME NEW r \in Runs, Ends(r) \/ Verify(r) \/ Clear(r) \/ Grant(r) PROVE TemplatesPaid'
  <2>1. /\ job[r].pc \in {"verify", "clear", "grant"} /\ job'[r].pc \in {"off", "clear", "grant"}
        /\ \A s \in Runs \ {r} : job'[s] = job[s]
    BY <1>5, Becomes, OffIs, GoesOn DEF Ends, Verify, Clear, Grant, At
  <2>2. Pending' = Pending /\ Templates' = Templates /\ \A s \in Runs : At(s, "new")' <=> At(s, "new")
    BY <2>1 DEF Templates, Pending, At
  <2>3. wanted' = wanted /\ emptied' = emptied /\ holes' = holes
    BY <1>5 DEF Ends, Verify, Clear, Grant, history
  <2>4. list' = None => list = None
    <3>1. list \in Lists => [list EXCEPT !.readable = FALSE] \in Lists /\ [list EXCEPT !.readable = TRUE] \in Lists
      BY DEF Lists
    <3> QED
      BY <1>5, <3>1, NoneApart DEF Ends, Verify, Clear, Grant, AllowTypeOK
  <2>5. Gap' <= Gap /\ First <= First'
    BY <2>2, <2>3, <2>4 DEF Gap, First
  <2> QED
    BY <1>0, <2>2, <2>3, <2>5, TemplatesSame
<1>6. ASSUME NEW r \in Runs, Fails(r) PROVE TemplatesPaid'
  <2>1. job'[r].pc = "off" /\ \A s \in Runs \ {r} : job'[s] = job[s]
    BY <1>6, Becomes, OffIs DEF Fails
  <2>2. /\ wanted' = wanted /\ emptied' = emptied /\ overlaps' = overlaps /\ list' = list
        /\ holes <= holes'
    BY <1>0, <1>6 DEF Fails
  <2>3. CASE r \in Templates
    <3>1. Templates' = Templates \ {r}
      BY <2>1 DEF Templates, Pending
    <3> QED
      BY <1>0, <2>2, <2>3, <3>1, TemplateGone
  <2>4. CASE r \in Pending \ Templates
    <3>1. job[r].edit # None /\ job[r].pc \in {"old", "new"}
      BY <2>4 DEF Templates, Pending
    <3>2. CASE At(r, "new") /\ list = None
      BY <1>0, <1>6, <3>1, <3>2, GapOpens
    <3>3. CASE ~(At(r, "new") /\ list = None)
      <4>1. Templates' = Templates /\ Pending # Templates
        BY <2>1, <2>4 DEF Templates, Pending
      <4>2. Gap' <= Gap /\ First <= First'
        BY <2>1, <2>2, <3>3, <4>1 DEF Gap, At, First
      <4> QED
        BY <1>0, <2>2, <4>1, <4>2, TemplatesSame
    <3> QED
      BY <3>2, <3>3
  <2>5. CASE r \notin Pending
    <3>1. Pending' = Pending /\ Templates' = Templates
      BY <2>1, <2>5 DEF Templates, Pending
    <3>2. Gap' <= Gap /\ First <= First'
      BY <2>1, <2>2, <2>5, <3>1 DEF Gap, At, Pending, First
    <3> QED
      BY <1>0, <2>2, <3>1, <3>2, TemplatesSame
  <2> QED
    BY <2>3, <2>4, <2>5 DEF Templates
<1>7. CASE UNCHANGED vars
  <2>1. /\ wanted' = wanted /\ emptied' = emptied /\ holes' = holes /\ Pending' = Pending
        /\ Templates' = Templates /\ Gap' <= Gap /\ First <= First'
    BY <1>7 DEF vars, history, Pending, Templates, Gap, First, At
  <2> QED
    BY <1>0, <2>1, TemplatesSame
<1> QED
  BY <1>1, <1>2, <1>3, <1>4, <1>5, <1>6, <1>7 DEF Next, RunNext

--------------------------------------------------------------------------------
(* The theorems *)

(* The inductive invariant: types, and what is paid for, by overlaps and by *)
(* commands that died in the middle: the entries that come back, the edits  *)
(* that are undone, and the templates that are installed over them.         *)
THEOREM AllowInvHolds == Spec => []AllowInv
<1>1. Init => AllowInv
  <2> SUFFICES ASSUME Init PROVE AllowInv
    OBVIOUS
  <2>1. AllowTypeOK
    BY OffType, AllowConstants DEF Init, AllowTypeOK, AllowConstants
  <2>2. \A r \in Runs : job[r].pc = "off"
    BY DEF Init, Off
  <2>3. /\ Pending = {} /\ Entered = {} /\ Templates = {} /\ list = None
        /\ overlaps = 0 /\ holes = 0 /\ emptied = 0 /\ removed = {} /\ wanted = {}
    BY <2>2 DEF Pending, Entered, Templates, Init
  <2>4. ComebacksPaid /\ EditsPaid
    BY <2>3, FS_EmptySet DEF ComebacksPaid, EditsPaid
  <2>5. TemplatesPaid
    BY <2>3, FS_EmptySet DEF TemplatesPaid, Gap, First
  <2>6. TemplateIsEmpty
    BY DEF TemplateIsEmpty, Init, Off
  <2> QED
    BY <2>1, <2>4, <2>5, <2>6 DEF AllowInv
<1>2. AllowInv /\ [Next]_vars => AllowInv'
  BY TypeStep, ComebacksStep, TemplateStep, EditsStep, TemplatesStep DEF AllowInv
<1> QED
  BY <1>1, <1>2, PTL DEF Spec

(* The variables keep their types.                                          *)
THEOREM AllowTypeCorrect == Spec => []AllowTypeOK
<1>1. AllowInv => AllowTypeOK
  BY DEF AllowInv
<1> QED
  BY <1>1, AllowInvHolds, PTL

(* Until the list is lost as a whole, it is what the edits add up to but    *)
(* for at most one entry per overlap, wherever commands fail.               *)
THEOREM EditsAddUp == Spec => []ListAddsUp
<1>1. AllowInv => ListAddsUp
  <2> SUFFICES ASSUME AllowInv, list # None, emptied = 0 PROVE Cardinality(Differ) <= overlaps
    BY DEF ListAddsUp
  <2>1. Differ = Apart(list.entries, wanted) /\ AllowTypeOK /\ overlaps \in Nat
    BY DEF Differ, Apart, AllowInv, AllowTypeOK
  <2>2. Cardinality(Differ) \in Nat /\ Cardinality(Pending) \in Nat
    BY <2>1, ApartType, PendingIsFinite
  <2>3. Cardinality(Differ)
          + (IF Cardinality(Pending) = 0 THEN 0 ELSE Cardinality(Pending) - 1) <= overlaps
    BY <2>1 DEF AllowInv, EditsPaid
  <2> QED
    BY <2>1, <2>2, <2>3
<1> QED
  BY <1>1, AllowInvHolds, PTL

(* The empty template takes the place of entries at most once for each      *)
(* command that died when the old list was gone, and each overlap.          *)
THEOREM EmptiedByHoles == Spec => []EmptiedHasACause
<1>1. AllowInv => EmptiedHasACause
  <2> SUFFICES ASSUME AllowInv PROVE emptied <= holes + overlaps
    BY DEF EmptiedHasACause
  <2> DEFINE T == Cardinality(Templates)
  <2>1. emptied \in Nat /\ holes \in Nat /\ overlaps \in Nat /\ T \in Nat
    BY TemplatesFinite DEF AllowInv, AllowTypeOK
  <2>2. emptied + T + Gap <= holes + overlaps + First
    BY DEF AllowInv, TemplatesPaid
  <2>3. Gap \in {0, 1} /\ First \in {0, 1} /\ (First = 1 => T # 0)
    BY TemplatesFinite, GapFirst
  <2> HIDE DEF T
  <2> QED
    BY <2>1, <2>2, <2>3
<1> QED
  BY <1>1, AllowInvHolds, PTL

(* However many commands overlap, each overlap brings back at most one      *)
(* entry that was removed.                                                  *)
THEOREM ComebacksBounded == Spec => []FewComeBack
<1>1. AllowInv => FewComeBack
  <2> SUFFICES ASSUME AllowInv, list # None PROVE Cardinality(list.entries \cap removed) <= overlaps
    BY DEF FewComeBack
  <2>1. Entered = list.entries /\ overlaps \in Nat
    BY DEF Entered, AllowInv, AllowTypeOK
  <2>2. (Entered \cap removed) \in SUBSET ValidEntries
    BY EnteredType DEF AllowInv
  <2>3. Cardinality(Entered \cap removed) \in Nat /\ Cardinality(Pending) \in Nat
    BY <2>2, SetsAreFinite, PendingIsFinite
  <2>4. Cardinality(Entered \cap removed)
          + (IF Cardinality(Pending) = 0 THEN 0 ELSE Cardinality(Pending) - 1) <= overlaps
    BY DEF AllowInv, ComebacksPaid
  <2> QED
    BY <2>1, <2>3, <2>4
<1> QED
  BY <1>1, AllowInvHolds, PTL

(* A list that helpers cannot read is about to get its ACL by a command     *)
(* that still runs, or a command was killed or failed.                      *)
THEOREM ClosedOnTheWay == Spec => []ClosedHasACause
<1>1. Init => ClosedHasACause
  BY DEF Init, ClosedHasACause
<1>2. AllowTypeOK /\ ClosedHasACause /\ [Next]_vars => ClosedHasACause'
  <2> SUFFICES ASSUME AllowTypeOK, ClosedHasACause, [Next]_vars PROVE ClosedHasACause'
    OBVIOUS
  <2>0. job \in [Runs -> Jobs] /\ faults \in Nat
    BY AllowConstants DEF AllowTypeOK, AllowConstants
  <2>1. ASSUME NEW r \in Runs, EditBegins(r) \/ InstallBegins(r) PROVE ClosedHasACause'
    <3>1. list' = list /\ faults' = faults /\ job[r].pc = "off"
      BY <2>1 DEF EditBegins, InstallBegins, Begin, At
    <3>2. \A s \in Runs \ {r} : job'[s] = job[s]
      BY <2>0, <2>1 DEF EditBegins, InstallBegins, Become
    <3> QED
      BY <3>1, <3>2 DEF ClosedHasACause
  <2>2. ASSUME NEW r \in Runs, InstallOld(r) PROVE ClosedHasACause'
    BY <2>2 DEF InstallOld, ClosedHasACause
  <2>3. ASSUME NEW r \in Runs, NEW pc \in {"verify", "clear", "grant"}, Goto(r, pc) PROVE ClosedHasACause'
    <3>1. job[r] \in Jobs /\ job'[r] = [job[r] EXCEPT !.pc = pc]
      BY <2>0, <2>3 DEF Goto
    <3>2. job'[r].pc = pc
      BY <3>1 DEF Jobs
    <3> QED
      BY <2>3, <3>2 DEF ClosedHasACause
  <2>4. ASSUME NEW r \in Runs, Ends(r) PROVE ClosedHasACause'
    BY <2>4 DEF Ends, ClosedHasACause
  <2>5. ASSUME NEW r \in Runs, Grant(r) PROVE ClosedHasACause'
    <3>1. list \in Lists /\ list'.readable
      BY <2>5 DEF Grant, AllowTypeOK, Lists
    <3> QED
      BY <3>1 DEF ClosedHasACause
  <2>6. ASSUME NEW r \in Runs, Fails(r) PROVE ClosedHasACause'
    BY <2>0, <2>6 DEF Fails, ClosedHasACause
  <2>7. CASE UNCHANGED vars
    BY <2>7 DEF vars, history, ClosedHasACause
  <2> QED
    BY <2>1, <2>2, <2>3, <2>4, <2>5, <2>6, <2>7 DEF Next, RunNext, InstallNew, Verify, Clear
<1> QED
  BY <1>1, <1>2, AllowTypeCorrect, PTL DEF Spec
================================================================================
