------------------------------- MODULE LogProofs -------------------------------
(* What the log keeps for every number of helpers, of backups and of lines *)
(* to a file.                                                              *)
EXTENDS LogRotation, TLAPS, FiniteSetTheorems

--------------------------------------------------------------------------------
(* Types *)

\* PlacesOK, for one helper
PlaceOK(j) ==
    /\ j.pc = "source" => j.index \in 1..(Backups - 1)
    /\ j.pc = "move" => j.index \in 0..(Backups - 1)
    /\ j.pc = "write" => j.fd \in Files

LEMMA IdleType == Idle \in Jobs /\ PlaceOK(Idle)
  BY LogConstants DEF LogConstants, Idle, Jobs, Names, PlaceOK

LEMMA PlaceType ==
  ASSUME NEW pc \in {"size", "oldest", "drop", "open"}
  PROVE  [Idle EXCEPT !.pc = pc] \in Jobs /\ PlaceOK([Idle EXCEPT !.pc = pc])
  BY LogConstants DEF LogConstants, Idle, Jobs, Names, PlaceOK

LEMMA ShiftType ==
  ASSUME NEW i \in 0..(Backups - 1)
  PROVE  Shift(i) \in Jobs /\ PlaceOK(Shift(i))
<1> USE LogConstants DEF LogConstants, Shift, Jobs, Names, PlaceOK
<1>1. CASE i = 0
  BY <1>1
<1>2. CASE i # 0
  BY <1>2
<1> QED
  BY <1>1, <1>2

LEMMA JobType ==
  ASSUME LogTypeOK, PlacesOK, NEW w \in Workers, NEW j \in Jobs, PlaceOK(j), Become(w, j)
  PROVE  job' \in [Workers -> Jobs] /\ PlacesOK'
  BY DEF LogTypeOK, PlacesOK, PlaceOK, Become, At

LEMMA BackupsType == Backups - 1 \in 0..(Backups - 1) /\ 0 \in Names /\ Backups \in Names
  BY LogConstants DEF LogConstants, Names

LEMMA TypeStep == LogTypeOK /\ PlacesOK /\ [Next]_vars => LogTypeOK' /\ PlacesOK'
<1> SUFFICES ASSUME LogTypeOK, PlacesOK, [Next]_vars PROVE LogTypeOK' /\ PlacesOK'
  OBVIOUS
<1> USE LogConstants DEF LogConstants
<1>1. ASSUME NEW w \in Workers, Call(w) PROVE LogTypeOK' /\ PlacesOK'
  BY <1>1, JobType, PlaceType DEF Call, LogTypeOK
<1>2. ASSUME NEW w \in Workers, Abort(w) PROVE LogTypeOK' /\ PlacesOK'
  BY <1>2, JobType, IdleType DEF Abort, LogTypeOK
<1>3. ASSUME NEW w \in Workers, NEW j \in Jobs, PlaceOK(j), Step(w, j)
      PROVE  LogTypeOK' /\ PlacesOK'
  BY <1>3, JobType DEF Step, LogTypeOK
<1>4. ASSUME NEW w \in Workers, Size(w) PROVE LogTypeOK' /\ PlacesOK'
  BY <1>3, <1>4, PlaceType DEF Size
<1>5. ASSUME NEW w \in Workers, Oldest(w) PROVE LogTypeOK' /\ PlacesOK'
  BY <1>3, <1>5, PlaceType, ShiftType, BackupsType DEF Oldest
<1>6. ASSUME NEW w \in Workers, Drop(w) PROVE LogTypeOK' /\ PlacesOK'
  BY <1>2, <1>6, JobType, ShiftType, BackupsType DEF Drop, LogTypeOK
<1>7. ASSUME NEW w \in Workers, Source(w) PROVE LogTypeOK' /\ PlacesOK'
  <2>1. job[w].index \in 1..(Backups - 1) /\ job[w].index - 1 \in 0..(Backups - 1)
    BY <1>7 DEF Source, PlacesOK, At
  <2>2. job[w] \in Jobs
    BY DEF LogTypeOK
  <2>3. [job[w] EXCEPT !.pc = "move"] \in Jobs /\ PlaceOK([job[w] EXCEPT !.pc = "move"])
    BY <2>1, <2>2 DEF Jobs, PlaceOK
  <2> QED
    BY <1>3, <1>7, <2>1, <2>3, ShiftType DEF Source
<1>8. ASSUME NEW w \in Workers, Move(w) PROVE LogTypeOK' /\ PlacesOK'
  <2>1. job[w].index \in 0..(Backups - 1) /\ job[w].index \in Names /\ job[w].index + 1 \in Names
    BY <1>8 DEF Move, PlacesOK, At, Names
  <2>2. job[w].index # 0 => job[w].index - 1 \in 0..(Backups - 1)
    BY <2>1
  <2>3. CASE file[job[w].index] = None
    BY <1>2, <1>8, <2>3 DEF Move
  <2>4. CASE file[job[w].index] # None
    <3>1. job' \in [Workers -> Jobs] /\ PlacesOK'
      BY <1>8, <2>2, <2>4, JobType, PlaceType, ShiftType DEF Move
    <3> QED
      BY <1>8, <2>1, <2>4, <3>1 DEF Move, LogTypeOK
  <2> QED
    BY <2>3, <2>4
<1>9. ASSUME NEW w \in Workers, Open(w) PROVE LogTypeOK' /\ PlacesOK'
  <2>1. PICK f \in Files : /\ file' = [file EXCEPT ![0] = f]
                           /\ Become(w, [pc |-> "write", index |-> 0, fd |-> f])
    BY <1>9 DEF Open
  <2> DEFINE j == [pc |-> "write", index |-> 0, fd |-> f]
  <2>2. j \in Jobs /\ PlaceOK(j)
    BY DEF Jobs, Names, PlaceOK
  <2>3. job' \in [Workers -> Jobs] /\ PlacesOK'
    BY <2>1, <2>2, JobType
  <2> QED
    BY <1>9, <2>1, <2>3, BackupsType DEF Open, LogTypeOK
<1>10. ASSUME NEW w \in Workers, Write(w) PROVE LogTypeOK' /\ PlacesOK'
  <2>1. job[w].fd \in Files
    BY <1>10 DEF Write, PlacesOK, At
  <2>2. 1..written \subseteq 1..written' /\ written' \in 1..written' /\ written' \in Nat
    BY <1>10 DEF Write, LogTypeOK
  <2>3. lines' \in [Files -> SUBSET (1..written')]
    BY <1>10, <2>1, <2>2 DEF Write, LogTypeOK
  <2> QED
    BY <1>10, <2>2, <2>3, JobType, IdleType DEF Write, LogTypeOK
<1>11. ASSUME NEW w \in Workers, Crash(w) PROVE LogTypeOK' /\ PlacesOK'
  BY <1>11, JobType, IdleType DEF Crash, LogTypeOK
<1>12. CASE UNCHANGED vars
  BY <1>12 DEF vars, LogTypeOK, PlacesOK, At
<1> QED
  BY <1>1, <1>4, <1>5, <1>6, <1>7, <1>8, <1>9, <1>10, <1>11, <1>12 DEF Next, LogNext

--------------------------------------------------------------------------------
(* Every overlap pays for one line *)

LEMMA ActiveFinite == IsFiniteSet(Active) /\ Cardinality(Active) \in Nat
  BY LogConstants, FS_Subset, FS_CardinalityType DEF LogConstants, Active

(* A step that neither begins a call nor ends one, and after which somebody *)
(* is not doomed if somebody was not before, leaves the account as it is.   *)
LEMMA PayKept ==
  ASSUME LogTypeOK, OverlapsPay,
         Active' = Active, dropped' = dropped, overlaps' = overlaps,
         Active \subseteq Doomed \/ ~(Active' \subseteq Doomed')
  PROVE  OverlapsPay'
<1>1. Cardinality(Active') = Cardinality(Active) /\ Cardinality(Active) \in Nat
  BY ActiveFinite
<1> QED
  BY <1>1 DEF OverlapsPay, LogTypeOK

LEMMA PayOnLeaving ==
  ASSUME LogTypeOK, OverlapsPay, NEW w \in Active,
         Active' = Active \ {w}, overlaps' = overlaps,
         \/ dropped' = dropped
         \/ dropped' = dropped + 1 /\ (Active \subseteq Doomed \/ ~(Active' \subseteq Doomed'))
  PROVE  OverlapsPay'
<1>1. Cardinality(Active \ {w}) = Cardinality(Active) - 1 /\ Cardinality(Active) \in Nat
  BY ActiveFinite, FS_RemoveElement
<1> QED
  BY <1>1 DEF OverlapsPay, LogTypeOK

LEMMA ShiftGoesOn ==
  ASSUME NEW i \in 0..(Backups - 1)
  PROVE  /\ Shift(i).pc \in {"source", "move"}
         /\ Shift(i).pc = "move" => Shift(i).index = 0
  BY DEF Shift

(* The same of a step of a rotation that ends in j.  Without log.txt every  *)
(* rotation is doomed already, and its next step dooms nobody else; with it *)
(* the helper that takes the step goes on.                                  *)
LEMMA PayOnStep ==
  ASSUME LogTypeOK, OverlapsPay, NEW w \in Workers, NEW j \in Jobs, Become(w, j),
         job[w].pc \in {"oldest", "drop", "source", "move"},
         dropped' = dropped, overlaps' = overlaps,
         j.pc \in {"drop", "source", "move", "open"},
         file[0] = None => file'[0] = None,
         file[0] # None =>
             \/ j.pc = "open"
             \/ /\ file'[0] # None
                /\ j.pc = "drop" => file'[Backups] # None
                /\ j.pc = "move" => file'[j.index] # None
  PROVE  OverlapsPay'
<1>1. job' = [job EXCEPT ![w] = j] /\ job'[w] = j /\ \A v \in Workers \ {w} : job'[v] = job[v]
  BY DEF Become, LogTypeOK
<1>2. Active' = Active /\ w \in Active
  BY <1>1 DEF Active, At
<1>3. CASE file[0] = None
  <2>1. \A v \in Active \ Doomed : v # w /\ v \notin Doomed'
    BY <1>1, <1>3 DEF Active, Doomed, At
  <2> QED
    BY <1>2, <2>1, PayKept
<1>4. CASE file[0] # None
  <2>1. w \notin Doomed'
    BY <1>1, <1>4 DEF Doomed, At
  <2> QED
    BY <1>2, <2>1, PayKept
<1> QED
  BY <1>3, <1>4

LEMMA PayStep == LogTypeOK /\ PlacesOK /\ OverlapsPay /\ [Next]_vars => OverlapsPay'
<1> SUFFICES ASSUME LogTypeOK, PlacesOK, OverlapsPay, [Next]_vars PROVE OverlapsPay'
  OBVIOUS
<1> USE LogConstants DEF LogConstants
<1>1. ASSUME NEW w \in Workers, Call(w) PROVE OverlapsPay'
  <2>1. w \notin Active /\ Active' = Active \cup {w} /\ w \notin Doomed'
    BY <1>1 DEF Call, Active, Doomed, At, Become, Idle, LogTypeOK
  <2>2. Cardinality(Active') = Cardinality(Active) + 1 /\ Cardinality(Active) \in Nat
    BY <2>1, ActiveFinite, FS_AddElement
  <2>a. Active = {} <=> ~\E v \in Workers : ~At(v, "off")
    BY DEF Active
  <2>3. overlaps' = overlaps + (IF Active = {} THEN 0 ELSE 1) /\ dropped' = dropped
    BY <1>1, <2>a DEF Call, LogTypeOK
  <2>4. Active = {} => Active \subseteq Doomed
    OBVIOUS
  <2> QED
    BY <2>1, <2>2, <2>3, <2>4 DEF OverlapsPay, LogTypeOK
<1>2. ASSUME NEW w \in Doomed, Abort(w) PROVE OverlapsPay'
  <2>1. w \in Workers /\ w \in Active /\ Active' = Active \ {w}
    BY <1>2 DEF Abort, Active, Doomed, At, Become, Idle, LogTypeOK
  <2>2. \A v \in Active \ Doomed : v \in Active' \ Doomed'
    BY <1>2 DEF Abort, Active, Doomed, At, Become, Idle, LogTypeOK
  <2> QED
    BY <1>2, <2>1, <2>2, PayOnLeaving DEF Abort
<1>3. ASSUME NEW w \in Workers, Size(w) PROVE OverlapsPay'
  <2>1. Active' = Active /\ w \in Active' /\ w \notin Doomed'
    BY <1>3 DEF Size, Step, Active, Doomed, At, Become, Idle, LogTypeOK
  <2> QED
    BY <1>3, <2>1, PayKept DEF Size, Step
<1>4. ASSUME NEW w \in Workers, Oldest(w) PROVE OverlapsPay'
  BY <1>4, PayOnStep, PlaceType, ShiftType, ShiftGoesOn, BackupsType
     DEF Oldest, Step, At, Idle
<1>5. ASSUME NEW w \in Workers, Drop(w) PROVE OverlapsPay'
  <2>1. CASE file[Backups] = None
    BY <1>2, <1>5, <2>1 DEF Drop, Doomed, At
  <2>2. CASE file[Backups] # None
    <3>1. file'[0] = file[0]
      BY <1>5, <2>2 DEF Drop, LogTypeOK, Names
    <3> QED
      BY <1>5, <2>2, <3>1, PayOnStep, ShiftType, ShiftGoesOn, BackupsType DEF Drop, At
  <2> QED
    BY <2>1, <2>2
<1>6. ASSUME NEW w \in Workers, Source(w) PROVE OverlapsPay'
  <2>1. job[w].index \in 1..(Backups - 1) /\ job[w].index - 1 \in 0..(Backups - 1)
    BY <1>6 DEF Source, PlacesOK, At
  <2>2. CASE file[job[w].index] = None
    BY <1>6, <2>1, <2>2, PayOnStep, ShiftType, ShiftGoesOn DEF Source, Step, At
  <2>3. CASE file[job[w].index] # None
    <3> DEFINE j == [job[w] EXCEPT !.pc = "move"]
    <3>1. j \in Jobs /\ j.pc = "move" /\ j.index = job[w].index
      BY DEF LogTypeOK, Jobs
    <3>2. Become(w, j) /\ file' = file /\ dropped' = dropped /\ overlaps' = overlaps
      BY <1>6, <2>3 DEF Source, Step
    <3> QED
      BY <1>6, <2>3, <3>1, <3>2, PayOnStep DEF Source, At
  <2> QED
    BY <2>2, <2>3
<1>7. ASSUME NEW w \in Workers, Move(w) PROVE OverlapsPay'
  <2>1. job[w].index \in 0..(Backups - 1) /\ job[w].index \in Names
    BY <1>7 DEF Move, PlacesOK, At, Names
  <2>2. CASE file[job[w].index] = None
    BY <1>2, <1>7, <2>2 DEF Move, Doomed, At
  <2>3. CASE file[job[w].index] # None /\ job[w].index = 0
    BY <1>7, <2>3, PayOnStep, PlaceType DEF Move, At, Idle
  <2>4. CASE file[job[w].index] # None /\ job[w].index # 0
    <3> DEFINE i == job[w].index
    <3>a. i - 1 \in 0..(Backups - 1) /\ 0 \in Names /\ 0 # i /\ 0 # i + 1
      BY <2>1, <2>4, BackupsType
    <3>b. file' = [file EXCEPT ![i + 1] = file[i], ![i] = None]
      BY <1>7, <2>4 DEF Move
    <3>1. file'[0] = file[0] /\ i - 1 \in 0..(Backups - 1)
      BY <3>a, <3>b DEF LogTypeOK
    <3> QED
      BY <1>7, <2>4, <3>1, PayOnStep, ShiftType, ShiftGoesOn DEF Move, At
  <2> QED
    BY <2>2, <2>3, <2>4
<1>8. ASSUME NEW w \in Workers, Open(w) PROVE OverlapsPay'
  <2>1. Active' = Active /\ w \in Active' /\ w \notin Doomed'
    BY <1>8 DEF Open, Active, Doomed, At, Become, LogTypeOK
  <2> QED
    BY <1>8, <2>1, PayKept DEF Open
<1>9. ASSUME NEW w \in Workers, Write(w) \/ Crash(w) PROVE OverlapsPay'
  <2>1. w \in Active /\ Active' = Active \ {w}
    BY <1>9 DEF Write, Crash, Active, At, Become, Idle, LogTypeOK
  <2> QED
    BY <1>9, <2>1, PayOnLeaving DEF Write, Crash
<1>10. CASE UNCHANGED vars
  <2>1. Active' = Active /\ Doomed' = Doomed
    BY <1>10 DEF vars, Active, Doomed, At
  <2> QED
    BY <1>10, <2>1, PayKept DEF vars
<1> QED
  BY <1>1, <1>3, <1>4, <1>5, <1>6, <1>7, <1>8, <1>9, <1>10 DEF Next, LogNext

--------------------------------------------------------------------------------
(* Every helper adds one line at most to a full file *)

LEMMA LinesFinite ==
  ASSUME LogTypeOK, NEW f \in Files
  PROVE  IsFiniteSet(lines[f]) /\ Cardinality(lines[f]) \in Nat
<1>1. IsFiniteSet(1..written)
  BY FS_Interval DEF LogTypeOK
<1> QED
  BY <1>1, FS_Subset, FS_CardinalityType DEF LogTypeOK

LEMMA PendingFinite ==
  ASSUME NEW f \in Files
  PROVE  /\ IsFiniteSet(Pending(f))
         /\ Cardinality(Pending(f)) \in Nat
         /\ Cardinality(Workers) \in Nat
         /\ Cardinality(Pending(f)) <= Cardinality(Workers)
  BY LogConstants, FS_Subset, FS_CardinalityType DEF LogConstants, Pending

LEMMA RoomKept ==
  ASSUME LogTypeOK, RoomLeft, NEW f \in Files, LogTypeOK',
         lines'[f] = lines[f], Pending(f)' \subseteq Pending(f)
  PROVE  Cardinality(lines[f])' + Cardinality(Pending(f))' < Full + Cardinality(Workers)
<1>1. Cardinality(Pending(f)') <= Cardinality(Pending(f)) /\ Cardinality(Pending(f)') \in Nat
  BY PendingFinite, FS_Subset, FS_CardinalityType
<1>2. Cardinality(lines[f]) \in Nat /\ Cardinality(Pending(f)) \in Nat
  BY LinesFinite, PendingFinite
<1>3. Cardinality(Workers) \in Nat /\ Full \in Nat
  BY PendingFinite, LogConstants DEF LogConstants
<1> QED
  BY <1>1, <1>2, <1>3 DEF RoomLeft

LEMMA RoomStep ==
  LogTypeOK /\ PlacesOK /\ RoomLeft /\ LogTypeOK' /\ [Next]_vars => RoomLeft'
<1> SUFFICES ASSUME LogTypeOK, PlacesOK, RoomLeft, LogTypeOK', [Next]_vars,
                    NEW f \in Files
             PROVE  Cardinality(lines[f])' + Cardinality(Pending(f))' < Full + Cardinality(Workers)
  BY DEF RoomLeft
<1> DEFINE Room == Cardinality(lines[f])' + Cardinality(Pending(f))' < Full + Cardinality(Workers)
<1> USE LogConstants DEF LogConstants
<1>1. ASSUME lines'[f] = lines[f], Pending(f)' \subseteq Pending(f) PROVE Room
  BY <1>1, RoomKept
<1>2. ASSUME NEW w \in Workers, NEW j \in Jobs, Become(w, j), lines' = lines,
             j.pc \notin {"open", "write"}, file'[0] = file[0]
      PROVE  Room
  <2>1. Pending(f)' \subseteq Pending(f)
    BY <1>2 DEF Pending, At, Become, LogTypeOK
  <2> QED
    BY <1>1, <1>2, <2>1
<1>3. ASSUME NEW w \in Workers, Call(w) PROVE Room
  BY <1>2, <1>3, PlaceType DEF Call, Idle
<1>4. ASSUME NEW w \in Workers, Abort(w) PROVE Room
  BY <1>2, <1>4, IdleType DEF Abort, Idle
<1>5. ASSUME NEW w \in Workers, Size(w) PROVE Room
  <2>1. CASE file[0] = f /\ Cardinality(lines[f]) < Full
    <3>1. lines' = lines
      BY <1>5 DEF Size, Step
    <3>2. Cardinality(Pending(f)') \in Nat /\ Cardinality(Pending(f)') <= Cardinality(Workers)
      BY FS_Subset, FS_CardinalityType DEF Pending
    <3> QED
      BY <2>1, <3>1, <3>2, LinesFinite, PendingFinite
  <2>2. CASE ~(file[0] = f /\ Cardinality(lines[f]) < Full)
    <3>1. Pending(f)' \subseteq Pending(f) /\ lines' = lines
      <4>1. CASE file[0] # f
        BY <1>5, <4>1 DEF Size, Step, Pending, At, Become, Idle, LogTypeOK
      <4>2. CASE file[0] = f /\ Cardinality(lines[f]) >= Full
        <5>1. f # None
          BY DEF Files, None
        <5>2. /\ Become(w, [Idle EXCEPT !.pc = "oldest"]) /\ At(w, "size")
              /\ file' = file /\ lines' = lines
          BY <1>5, <4>2, <5>1 DEF Size, Step
        <5>3. job'[w].pc = "oldest" /\ \A v \in Workers \ {w} : job'[v] = job[v]
          BY <5>2 DEF Become, Idle, LogTypeOK
        <5> QED
          BY <5>2, <5>3 DEF Pending, At
      <4> QED
        BY <2>2, <4>1, <4>2, LinesFinite
    <3> QED
      BY <1>1, <3>1
  <2> QED
    BY <2>1, <2>2
<1>6. ASSUME NEW w \in Workers, Oldest(w) PROVE Room
  BY <1>2, <1>6, PlaceType, ShiftType, ShiftGoesOn, BackupsType DEF Oldest, Step, Idle
<1>7. ASSUME NEW w \in Workers, Drop(w) PROVE Room
  <2>1. CASE file[Backups] = None
    BY <1>4, <1>7, <2>1 DEF Drop
  <2>2. CASE file[Backups] # None
    <3>1. file'[0] = file[0]
      BY <1>7, <2>2 DEF Drop, LogTypeOK, Names
    <3> QED
      BY <1>2, <1>7, <2>2, <3>1, ShiftType, ShiftGoesOn, BackupsType DEF Drop
  <2> QED
    BY <2>1, <2>2
<1>8. ASSUME NEW w \in Workers, Source(w) PROVE Room
  <2>1. job[w].index - 1 \in 0..(Backups - 1)
    BY <1>8 DEF Source, PlacesOK, At
  <2>2. [job[w] EXCEPT !.pc = "move"] \in Jobs /\ [job[w] EXCEPT !.pc = "move"].pc = "move"
    BY DEF LogTypeOK, Jobs
  <2> QED
    BY <1>2, <1>8, <2>1, <2>2, ShiftType, ShiftGoesOn DEF Source, Step
<1>9. ASSUME NEW w \in Workers, Move(w) PROVE Room
  <2>1. job[w].index \in 0..(Backups - 1) /\ job[w].index \in Names
    BY <1>9 DEF Move, PlacesOK, At, Names
  <2>2. CASE file[job[w].index] = None
    BY <1>4, <1>9, <2>2 DEF Move
  <2>3. CASE file[job[w].index] # None /\ job[w].index = 0
    <3>1. file'[0] = None /\ lines' = lines /\ Become(w, [Idle EXCEPT !.pc = "open"])
      BY <1>9, <2>1, <2>3 DEF Move, LogTypeOK
    <3>2. Pending(f)' \subseteq Pending(f)
      BY <3>1 DEF Pending, At, Become, Idle, LogTypeOK, None, Files
    <3> QED
      BY <1>1, <3>1, <3>2
  <2>4. CASE file[job[w].index] # None /\ job[w].index # 0
    <3>1. file'[0] = file[0] /\ job[w].index - 1 \in 0..(Backups - 1)
      BY <1>9, <2>1, <2>4 DEF Move, LogTypeOK, Names
    <3> QED
      BY <1>2, <1>9, <2>4, <3>1, ShiftType, ShiftGoesOn DEF Move
  <2> QED
    BY <2>2, <2>3, <2>4
<1>10. ASSUME NEW w \in Workers, Open(w) PROVE Room
  <2>1. PICK g \in Files : /\ IF file[0] = None THEN g \notin Created ELSE g = file[0]
                           /\ file' = [file EXCEPT ![0] = g]
                           /\ Become(w, [pc |-> "write", index |-> 0, fd |-> g])
    BY <1>10 DEF Open
  <2>2. lines' = lines /\ file'[0] = g
    BY <1>10, <2>1, BackupsType DEF Open, LogTypeOK
  <2>3. CASE file[0] = None /\ g = f
    <3>1. lines[f] = {}
      BY <2>1, <2>3 DEF Created
    <3>2. Cardinality(Pending(f)') \in Nat /\ Cardinality(Pending(f)') <= Cardinality(Workers)
      BY FS_Subset, FS_CardinalityType DEF Pending
    <3> QED
      BY <2>2, <3>1, <3>2, FS_EmptySet, PendingFinite
  <2>4. CASE file[0] = None /\ g # f
    <3>1. Pending(f)' \subseteq Pending(f)
      BY <2>1, <2>2, <2>4 DEF Pending, At, Become, LogTypeOK
    <3> QED
      BY <1>1, <2>2, <3>1
  <2>5. CASE file[0] # None
    <3>1. Pending(f)' \subseteq Pending(f)
      BY <1>10, <2>1, <2>2, <2>5 DEF Open, Pending, At, Become, LogTypeOK
    <3> QED
      BY <1>1, <2>2, <3>1
  <2> QED
    BY <2>3, <2>4, <2>5
<1>11. ASSUME NEW w \in Workers, Write(w) PROVE Room
  <2>1. job[w].fd \in Files /\ w \in Workers /\ file' = file
    BY <1>11 DEF Write, PlacesOK, At
  <2>2. CASE job[w].fd # f
    <3>1. lines'[f] = lines[f] /\ Pending(f)' \subseteq Pending(f)
      BY <1>11, <2>1, <2>2 DEF Write, Pending, At, Become, Idle, LogTypeOK
    <3> QED
      BY <1>1, <3>1
  <2>3. CASE job[w].fd = f
    <3>1. lines'[f] = lines[f] \cup {written + 1}
      BY <1>11, <2>1, <2>3 DEF Write, LogTypeOK
    <3>2. w \in Pending(f) /\ Pending(f)' = Pending(f) \ {w}
      BY <1>11, <2>1, <2>3 DEF Write, Pending, At, Become, Idle, LogTypeOK
    <3>3. Cardinality(lines'[f]) <= Cardinality(lines[f]) + 1 /\ Cardinality(lines'[f]) \in Nat
      <4>1. written + 1 \notin lines[f]
        BY DEF LogTypeOK
      <4>2. Cardinality(lines[f] \cup {written + 1}) = Cardinality(lines[f]) + 1
        BY <4>1, LinesFinite, FS_AddElement
      <4> QED
        BY <3>1, <4>2, LinesFinite
    <3>4. Cardinality(Pending(f)') = Cardinality(Pending(f)) - 1
      BY <3>2, PendingFinite, FS_RemoveElement
    <3>5. Cardinality(lines[f]) + Cardinality(Pending(f)) < Full + Cardinality(Workers)
      BY DEF RoomLeft
    <3> QED
      BY <3>3, <3>4, <3>5, LinesFinite, PendingFinite
  <2> QED
    BY <2>2, <2>3
<1>12. ASSUME NEW w \in Workers, Crash(w) PROVE Room
  BY <1>2, <1>12, IdleType DEF Crash, Idle
<1>13. CASE UNCHANGED vars
  BY <1>1, <1>13 DEF vars, Pending, At
<1> QED
  BY <1>3, <1>5, <1>6, <1>7, <1>8, <1>9, <1>10, <1>11, <1>12, <1>13 DEF Next, LogNext

--------------------------------------------------------------------------------
(* What has been counted since the last race *)

LEMMA SinceType ==
  ASSUME LogTypeOK, SinceOK
  PROVE  /\ Kills \in Nat /\ Races \in Nat
         /\ written - since.written \in Nat /\ since.written \in Nat
         /\ Recent \subseteq 1..written
  BY DEF LogTypeOK, SinceOK, Kills, Races, Recent

LEMMA CountsStep ==
  ASSUME LogTypeOK, SinceOK, LogTypeOK',
         written <= written', crashes <= crashes', overlaps <= overlaps',
         since' = since \/ since' = Counts
  PROVE  since' \in [written : 0..written', crashes : 0..crashes', overlaps : 0..overlaps']
<1>1. /\ written \in Nat /\ crashes \in Nat /\ overlaps \in Nat
      /\ written' \in Nat /\ crashes' \in Nat /\ overlaps' \in Nat
  BY LogConstants DEF LogConstants, LogTypeOK
<1>2. 0..written \subseteq 0..written' /\ 0..crashes \subseteq 0..crashes' /\ 0..overlaps \subseteq 0..overlaps'
  BY <1>1
<1>3. CASE since' = since
  BY <1>2, <1>3 DEF SinceOK
<1>4. CASE since' = Counts
  <2>1. written \in 0..written' /\ crashes \in 0..crashes' /\ overlaps \in 0..overlaps'
    BY <1>1
  <2> QED
    BY <1>4, <2>1 DEF Counts
<1> QED
  BY <1>3, <1>4

LEMMA CountsGrow ==
  ASSUME LogTypeOK, [Next]_vars
  PROVE  /\ written <= written' /\ crashes <= crashes' /\ overlaps <= overlaps'
         /\ since' = since \/ since' = Counts
<1> USE LogConstants DEF LogConstants, LogTypeOK
<1>1. ASSUME NEW w \in Workers, Call(w)
      PROVE  /\ written' = written /\ crashes' = crashes /\ overlaps' \in {overlaps, overlaps + 1}
             /\ since' = since \/ since' = Counts
  BY <1>1 DEF Call
<1>2. ASSUME NEW w \in Workers, LogNext(w), ~Call(w)
      PROVE  /\ written' \in {written, written + 1} /\ crashes' \in {crashes, crashes + 1}
             /\ overlaps' = overlaps /\ since' = since
  BY <1>2 DEF LogNext, Abort, Size, Step, Oldest, Drop, Source, Move, Open, Write, Crash
<1>3. CASE UNCHANGED vars
  BY <1>3 DEF vars
<1> QED
  BY <1>1, <1>2, <1>3 DEF Next

(* A file never has two names.                                              *)
LEMMA NamesStep ==
  ASSUME LogTypeOK, PlacesOK, SinceOK, [Next]_vars
  PROVE  \A m, n \in Names : file'[m] # None /\ file'[m] = file'[n] => m = n
<1> DEFINE Goal == \A m, n \in Names : file'[m] # None /\ file'[m] = file'[n] => m = n
<1>a. \A m, n \in Names : file[m] # None /\ file[m] = file[n] => m = n
  BY DEF SinceOK
<1>1. ASSUME file' = file PROVE Goal
  BY <1>1, <1>a
<1>2. ASSUME NEW w \in Workers, Drop(w), file[Backups] # None PROVE Goal
  <2>1. file'[Backups] = None /\ \A n \in Names \ {Backups} : file'[n] = file[n]
    BY <1>2, BackupsType DEF Drop, LogTypeOK
  <2> QED
    BY <1>a, <2>1
<1>3. ASSUME NEW w \in Workers, Move(w), file[job[w].index] # None PROVE Goal
  <2> DEFINE i == job[w].index
  <2>1. i \in Names /\ i + 1 \in Names /\ i \in Nat
    BY <1>3, LogConstants DEF LogConstants, Move, At, PlacesOK, Names
  <2>2. /\ file'[i] = None /\ file'[i + 1] = file[i]
        /\ \A n \in Names \ {i, i + 1} : file'[n] = file[n]
    BY <1>3, <2>1 DEF Move, LogTypeOK
  <2> QED
    BY <1>a, <2>1, <2>2
<1>4. ASSUME NEW w \in Workers, Open(w) PROVE Goal
  <2>1. PICK f \in Files : /\ IF file[0] = None THEN f \notin Created ELSE f = file[0]
                           /\ file' = [file EXCEPT ![0] = f]
    BY <1>4, Zenon DEF Open
  <2>2. file'[0] = f /\ \A n \in Names \ {0} : file'[n] = file[n]
    BY <2>1, BackupsType DEF LogTypeOK
  <2>3. \A n \in Names \ {0} : file[n] # f
    BY <1>a, <2>1, BackupsType DEF Created, Files, None
  <2> QED
    BY <1>a, <2>2, <2>3
<1>5. ASSUME NEW w \in Workers, LogNext(w), ~Open(w), file' # file PROVE Goal
  <2>1. Drop(w) \/ Move(w)
    BY <1>5 DEF LogNext, Call, Size, Step, Oldest, Source, Write, Crash
  <2> QED
    BY <1>2, <1>3, <1>5, <2>1 DEF Drop, Move, Abort
<1> QED
  BY <1>1, <1>4, <1>5 DEF Next, vars

LEMMA SinceStep ==
  LogTypeOK /\ PlacesOK /\ SinceOK /\ LogTypeOK' /\ [Next]_vars => SinceOK'
  BY CountsStep, CountsGrow, NamesStep DEF SinceOK

\* The first call after a race, when all is quiet again
TakesStock ==
  /\ \E w \in Workers : Call(w)
  /\ \A v \in Workers : At(v, "off")
  /\ since' = Counts

(* There is no race after a step that there was not before, unless stock    *)
(* has just been taken.                                                     *)
LEMMA RacesEnd ==
  ASSUME LogTypeOK, SinceOK, [Next]_vars
  PROVE  /\ TakesStock => Races' = 0
         /\ ~TakesStock => since' = since /\ Races <= Races'
<1> USE LogConstants DEF LogConstants, LogTypeOK, SinceOK, Races
<1>1. ASSUME NEW w \in Workers, Call(w) PROVE overlaps' \in {overlaps, overlaps + 1}
  BY <1>1 DEF Call
<1>2. ASSUME NEW w \in Workers, Call(w), ~TakesStock PROVE since' = since
  BY <1>2 DEF Call, TakesStock
<1>3. ASSUME NEW w \in Workers, LogNext(w), ~Call(w) PROVE overlaps' = overlaps /\ since' = since
  BY <1>3 DEF LogNext, Abort, Size, Step, Oldest, Drop, Source, Move, Open, Write, Crash
<1>4. CASE UNCHANGED vars
  BY <1>4 DEF vars, TakesStock, Call
<1>5. ASSUME TakesStock PROVE Races' = 0
  <2>1. overlaps' = overlaps
    BY <1>5 DEF TakesStock, Call
  <2> QED
    BY <1>5, <2>1 DEF TakesStock, Counts
<1>6. ASSUME ~TakesStock PROVE since' = since /\ overlaps <= overlaps'
  BY <1>1, <1>2, <1>3, <1>4, <1>6 DEF Next, vars
<1>7. overlaps \in Nat /\ overlaps' \in Nat /\ since.overlaps \in 0..overlaps
  BY <1>1, <1>3, <1>4 DEF Next, vars
<1> QED
  BY <1>5, <1>6, <1>7

(* Nothing is recent when stock is taken, and nobody is in a rotation.      *)
LEMMA StockTaken ==
  ASSUME LogTypeOK, TakesStock
  PROVE  /\ file' = file /\ lines' = lines /\ written' = written /\ crashes' = crashes
         /\ Recent' = {} /\ Kills' = 0
         /\ \E w \in Workers : Active' = {w}
         /\ \A v \in Workers : job'[v].pc \in {"off", "size"}
<1>1. PICK w \in Workers : Call(w)
  BY DEF TakesStock
<1>2. job'[w].pc = "size" /\ \A v \in Workers \ {w} : job'[v].pc = "off"
  BY <1>1 DEF TakesStock, Call, Become, Idle, At, LogTypeOK
<1>3. since'.written = written /\ since'.crashes = crashes
  BY DEF TakesStock, Counts
<1>4. written' = written /\ crashes' = crashes /\ file' = file /\ lines' = lines
  BY <1>1 DEF Call
<1> QED
  BY <1>2, <1>3, <1>4, LogConstants DEF LogConstants, LogTypeOK, Recent, Kills, Active, At

--------------------------------------------------------------------------------
(* The order of the lines, as long as no two calls overlap *)

(* A step of the only helper that is at work.                               *)
LEMMA AloneOnStep ==
  ASSUME LogTypeOK, AloneOK, Races = 0, NEW w \in Active, NEW j, Become(w, j),
         j.pc \in {"source", "move"} => file'[j.index + 1] = None,
         j.pc \in {"oldest", "drop", "source", "move"} => file'[0] # None,
         j.pc = "drop" => file'[Backups] # None,
         j.pc = "move" => file'[j.index] # None,
         j.pc = "write" => j.fd = file'[0]
  PROVE  AloneOK'
<1>1. job'[w] = j /\ \A v \in Workers \ {w} : job'[v] = job[v] /\ At(v, "off")
  BY DEF AloneOK, Active, Become, LogTypeOK
<1>2. \A u, v \in Active' : u = v
  BY <1>1 DEF Active, At
<1>3. Doomed' = {}
  BY <1>1 DEF Doomed, At
<1> QED
  BY <1>1, <1>2, <1>3 DEF AloneOK, At

LEMMA AloneStep ==
  LogTypeOK /\ PlacesOK /\ SinceOK /\ AloneOK /\ [Next]_vars => AloneOK'
<1> SUFFICES ASSUME LogTypeOK, PlacesOK, SinceOK, AloneOK, [Next]_vars, Races' = 0 PROVE AloneOK'
  BY DEF AloneOK
<1> USE LogConstants DEF LogConstants
<1>1. CASE TakesStock
  <2>1. /\ \E w \in Workers : Active' = {w}
        /\ \A v \in Workers : job'[v].pc \in {"off", "size"}
    BY <1>1, StockTaken
  <2>2. Doomed' = {}
    BY <2>1 DEF Doomed
  <2> QED
    BY <2>1, <2>2 DEF AloneOK, At
<1> SUFFICES ASSUME ~TakesStock PROVE AloneOK'
  BY <1>1
<1>0. Races = 0 /\ since' = since
  BY RacesEnd, SinceType
<1>b. \A w \in Workers : job[w].pc \in {"oldest", "drop", "source", "move"} =>
        /\ file[0] # None
        /\ At(w, "drop") => file[Backups] # None
        /\ At(w, "move") => file[job[w].index] # None
  BY <1>0 DEF AloneOK, Doomed
<1>2. ASSUME NEW w \in Workers, Call(w) PROVE AloneOK'
  <2>1. \A v \in Workers : At(v, "off")
    BY <1>0, <1>2 DEF Call, Races, LogTypeOK, SinceOK
  <2>2. job'[w].pc = "size" /\ (\A v \in Workers \ {w} : job'[v].pc = "off") /\ file' = file
    BY <1>2, <2>1 DEF Call, Become, At, Idle, LogTypeOK
  <2>3. Active' \subseteq {w} /\ Doomed' = {}
    BY <2>2 DEF Active, Doomed, At
  <2>4. \A v \in Workers : job'[v].pc \notin {"source", "move", "write"}
    BY <2>2
  <2> QED
    BY <2>3, <2>4 DEF AloneOK, At
<1>3. ASSUME NEW w \in Workers, Size(w) PROVE AloneOK'
  <2>1. w \in Active
    BY <1>3 DEF Size, Active, At
  <2>2. CASE file[0] # None /\ Cardinality(lines[file[0]]) >= Full
    BY <1>0, <1>3, <2>1, <2>2, AloneOnStep DEF Size, Step, Idle
  <2>3. CASE ~(file[0] # None /\ Cardinality(lines[file[0]]) >= Full)
    BY <1>0, <1>3, <2>1, <2>3, AloneOnStep DEF Size, Step, Idle
  <2> QED
    BY <2>2, <2>3
\* A rotation goes on with the name before i, or with log.txt.
<1>4. ASSUME NEW w \in Active, NEW i \in 1..Backups, Become(w, Shift(i - 1)),
             file'[i] = None, file'[0] # None
      PROVE  AloneOK'
  <2>1. /\ Shift(i - 1).pc \in {"source", "move"} /\ Shift(i - 1).index + 1 = i
        /\ Shift(i - 1).pc = "move" => Shift(i - 1).index = 0
    BY DEF Shift
  <2> QED
    BY <1>0, <1>4, <2>1, AloneOnStep
<1>5. ASSUME NEW w \in Workers, Oldest(w) PROVE AloneOK'
  <2>1. w \in Active /\ file' = file /\ file[0] # None
    BY <1>5, <1>b DEF Oldest, Step, Active, At
  <2>2. CASE file[Backups] = None
    BY <1>4, <1>5, <2>1, <2>2 DEF Oldest, Step
  <2>3. CASE file[Backups] # None
    BY <1>0, <1>5, <2>1, <2>3, AloneOnStep DEF Oldest, Step, Idle
  <2> QED
    BY <2>2, <2>3
<1>6. ASSUME NEW w \in Workers, Drop(w) PROVE AloneOK'
  <2>1. w \in Active /\ file[0] # None /\ file[Backups] # None
    BY <1>6, <1>b DEF Drop, Active, At
  <2>2. file' = [file EXCEPT ![Backups] = None] /\ Become(w, Shift(Backups - 1))
    BY <1>6, <2>1 DEF Drop
  <2>3. file'[Backups] = None /\ file'[0] # None
    BY <2>1, <2>2, BackupsType DEF LogTypeOK
  <2> QED
    BY <1>4, <2>1, <2>2, <2>3
<1>7. ASSUME NEW w \in Workers, Source(w) PROVE AloneOK'
  <2>1. w \in Active /\ file[job[w].index + 1] = None /\ file[0] # None /\ file' = file
    BY <1>0, <1>7, <1>b DEF Source, Step, Active, At, AloneOK
  <2>2. job[w].index \in 1..(Backups - 1) /\ job[w].index \in 1..Backups /\ job[w] \in Jobs
    BY <1>7 DEF Source, PlacesOK, At, LogTypeOK
  <2>3. CASE file[job[w].index] = None
    BY <1>4, <1>7, <2>1, <2>2, <2>3 DEF Source, Step
  <2>4. CASE file[job[w].index] # None
    <3> DEFINE j == [job[w] EXCEPT !.pc = "move"]
    <3>1. j.pc = "move" /\ j.index = job[w].index
      BY <2>2 DEF Jobs
    <3>2. Become(w, j)
      BY <1>7, <2>4 DEF Source, Step
    <3> HIDE DEF j
    <3> QED
      BY <1>0, <2>1, <2>4, <3>1, <3>2, AloneOnStep
  <2> QED
    BY <2>3, <2>4
<1>8. ASSUME NEW w \in Workers, Move(w) PROVE AloneOK'
  <2> DEFINE i == job[w].index
  <2>1. w \in Active /\ i \in Names /\ i + 1 \in Names /\ i \in Nat
    BY <1>8 DEF Move, Active, At, PlacesOK, Names
  <2>2. file[i] # None /\ file[0] # None
    BY <1>8, <1>b DEF Move, At
  <2>3. /\ file' = [file EXCEPT ![i + 1] = file[i], ![i] = None]
        /\ Become(w, IF i = 0 THEN [Idle EXCEPT !.pc = "open"] ELSE Shift(i - 1))
    BY <1>8, <2>2 DEF Move
  <2>4. file'[i] = None /\ \A n \in Names \ {i, i + 1} : file'[n] = file[n]
    BY <2>1, <2>3 DEF LogTypeOK
  <2>5. CASE i = 0
    BY <1>0, <2>1, <2>3, <2>5, AloneOnStep DEF Idle
  <2>6. CASE i # 0
    <3>1. file'[0] # None /\ i \in 1..Backups
      BY <2>1, <2>2, <2>4, <2>6, BackupsType DEF Names
    <3> QED
      BY <1>4, <2>1, <2>3, <2>4, <2>6, <3>1
  <2> QED
    BY <2>5, <2>6
<1>9. ASSUME NEW w \in Workers, Open(w) PROVE AloneOK'
  <2>1. PICK f \in Files : /\ file' = [file EXCEPT ![0] = f]
                           /\ Become(w, [pc |-> "write", index |-> 0, fd |-> f])
    BY <1>9, Zenon DEF Open
  <2>2. file'[0] = f /\ w \in Active
    BY <1>9, <2>1, BackupsType DEF LogTypeOK, Open, Active, At
  <2> QED
    BY <1>0, <2>1, <2>2, AloneOnStep
<1>10. ASSUME NEW w \in Workers, Write(w) \/ Crash(w) PROVE AloneOK'
  <2>1. w \in Active
    BY <1>10 DEF Write, Crash, Active, At
  <2> QED
    BY <1>0, <1>10, <2>1, AloneOnStep DEF Write, Crash, Idle
<1>11. CASE UNCHANGED vars
  BY <1>11 DEF vars, AloneOK, Active, Doomed, At, Races
<1> QED
  BY <1>2, <1>3, <1>5, <1>6, <1>7, <1>8, <1>9, <1>10, <1>11 DEF Next, LogNext

LEMMA OrderStep ==
  LogTypeOK /\ PlacesOK /\ OrderInv /\ [Next]_vars => (Races' = 0 => InOrder')
<1> SUFFICES ASSUME LogTypeOK, PlacesOK, OrderInv, [Next]_vars, Races' = 0
             PROVE  /\ \A l \in Lost' \cap Recent', k \in Kept' : l < k
                    /\ \A m, n \in Names :
                          m < n /\ file'[m] # None /\ file'[n] # None =>
                            \A k \in lines'[file'[m]], l \in lines'[file'[n]] \cap Recent' : l < k
  BY DEF InOrder
<1> DEFINE Goal == /\ \A l \in Lost' \cap Recent', k \in Kept' : l < k
                   /\ \A m, n \in Names :
                         m < n /\ file'[m] # None /\ file'[n] # None =>
                           \A k \in lines'[file'[m]], l \in lines'[file'[n]] \cap Recent' : l < k
<1>10. CASE TakesStock
  BY <1>10, StockTaken
<1> SUFFICES ASSUME ~TakesStock PROVE Goal
  BY <1>10
<1>0. Races = 0 /\ AloneOK /\ InOrder /\ since' = since
  BY RacesEnd, SinceType DEF OrderInv
<1>a. /\ \A l \in Lost \cap Recent, k \in Kept : l < k
      /\ \A m, n \in Names : m < n /\ file[m] # None /\ file[n] # None =>
            \A k \in lines[file[m]], l \in lines[file[n]] \cap Recent : l < k
      /\ Recent = (since.written + 1)..written /\ since.written \in Nat
  BY <1>0, SinceType DEF InOrder, Recent, OrderInv
<1>b. Recent' = (since.written + 1)..written'
  BY <1>0 DEF Recent
<1> USE LogConstants DEF LogConstants
<1>1. ASSUME file' = file, lines' = lines, written' = written PROVE Goal
  BY <1>a, <1>b, <1>1 DEF Kept, Lost
<1>2. ASSUME NEW w \in Workers, Drop(w), file[Backups] # None PROVE Goal
  <2>1. file' = [file EXCEPT ![Backups] = None] /\ lines' = lines /\ written' = written
    BY <1>2 DEF Drop
  <2>2. file'[Backups] = None /\ \A n \in Names \ {Backups} : file'[n] = file[n] /\ n < Backups
    BY <2>1, BackupsType DEF LogTypeOK, Names
  <2>3. ASSUME NEW k \in Kept' PROVE k \in Kept /\ \A l \in lines[file[Backups]] \cap Recent : l < k
    <3>1. PICK n \in Names : file'[n] # None /\ k \in lines'[file'[n]]
      BY DEF Kept
    <3>2. n < Backups /\ file[n] # None /\ k \in lines[file[n]]
      BY <2>1, <2>2, <3>1
    <3> QED
      BY <1>a, <1>2, <3>2, BackupsType DEF Kept
  <2>4. ASSUME NEW l \in Lost' PROVE l \in Lost \/ l \in lines[file[Backups]]
    <3> SUFFICES ASSUME l \in Kept PROVE l \in lines[file[Backups]]
      BY <2>1 DEF Lost
    <3>1. PICK n \in Names : file[n] # None /\ l \in lines[file[n]]
      BY DEF Kept
    <3>2. n = Backups
      BY <2>1, <2>2, <3>1 DEF Lost, Kept
    <3> QED
      BY <3>1, <3>2
  <2> QED
    BY <1>a, <1>b, <2>1, <2>2, <2>3, <2>4
<1>3. ASSUME NEW w \in Workers, Move(w), file[job[w].index] # None PROVE Goal
  <2> DEFINE i == job[w].index
  <2>1. i \in Names /\ i + 1 \in Names /\ i \in Nat /\ file[i + 1] = None
    BY <1>0, <1>3 DEF Move, At, PlacesOK, AloneOK, Names
  <2>2. /\ file' = [file EXCEPT ![i + 1] = file[i], ![i] = None]
        /\ lines' = lines /\ written' = written
    BY <1>3 DEF Move
  <2>3. /\ file'[i] = None /\ file'[i + 1] = file[i]
        /\ \A n \in Names \ {i, i + 1} : file'[n] = file[n]
    BY <2>1, <2>2 DEF LogTypeOK
  <2>4. Kept' = Kept
    <3>1. ASSUME NEW k \in Kept PROVE k \in Kept'
      <4>1. PICK n \in Names : file[n] # None /\ k \in lines[file[n]]
        BY DEF Kept
      <4>2. file'[IF n = i THEN i + 1 ELSE n] = file[n]
        BY <2>1, <2>3, <4>1
      <4> QED
        BY <2>1, <2>2, <4>1, <4>2 DEF Kept
    <3>2. ASSUME NEW k \in Kept' PROVE k \in Kept
      <4>1. PICK n \in Names : file'[n] # None /\ k \in lines[file'[n]]
        BY <2>2 DEF Kept
      <4>2. file[IF n = i + 1 THEN i ELSE n] = file'[n]
        BY <2>1, <2>3, <4>1
      <4> QED
        BY <2>1, <4>1, <4>2 DEF Kept
    <3> QED
      BY <3>1, <3>2
  <2>5. Lost' = Lost
    BY <2>2, <2>4 DEF Lost
  <2>6. ASSUME NEW m \in Names, NEW n \in Names, m < n, file'[m] # None, file'[n] # None
        PROVE  \A k \in lines'[file'[m]], l \in lines'[file'[n]] \cap Recent' : l < k
    <3> DEFINE Was(x) == IF x = i + 1 THEN i ELSE x
    <3>1. /\ Was(m) \in Names /\ Was(n) \in Names
          /\ file'[m] = file[Was(m)] /\ file'[n] = file[Was(n)]
      BY <2>1, <2>3, <2>6
    <3>2. Was(m) < Was(n)
      BY <2>1, <2>3, <2>6 DEF Names
    <3> QED
      BY <1>a, <1>b, <2>2, <2>6, <3>1, <3>2
  <2> QED
    BY <1>a, <1>b, <2>2, <2>4, <2>5, <2>6
<1>4. ASSUME NEW w \in Workers, Open(w) PROVE Goal
  <2>1. PICK f \in Files : /\ IF file[0] = None THEN f \notin Created ELSE f = file[0]
                           /\ file' = [file EXCEPT ![0] = f]
    BY <1>4 DEF Open
  <2>2. lines' = lines /\ written' = written
    BY <1>4 DEF Open
  <2>3. CASE file[0] # None
    <3>1. file' = file
      BY <2>1, <2>3, BackupsType DEF LogTypeOK
    <3> QED
      BY <1>1, <2>2, <3>1
  <2>4. CASE file[0] = None
    <3>1. lines[f] = {} /\ file'[0] = f /\ \A n \in Names \ {0} : file'[n] = file[n]
      BY <2>1, <2>4, BackupsType DEF Created, LogTypeOK
    <3>2. Kept' = Kept
      <4>1. ASSUME NEW n \in Names, NEW k
            PROVE  file[n] # None /\ k \in lines[file[n]]
                     <=> file'[n] # None /\ k \in lines'[file'[n]]
        BY <2>2, <2>4, <3>1
      <4> QED
        BY <4>1 DEF Kept
    <3>3. Lost' = Lost
      BY <2>2, <3>2 DEF Lost
    <3>4. ASSUME NEW m \in Names, NEW n \in Names, m < n, file'[m] # None, file'[n] # None
          PROVE  \A k \in lines'[file'[m]], l \in lines'[file'[n]] \cap Recent' : l < k
      BY <1>a, <1>b, <2>2, <3>1, <3>4
    <3> QED
      BY <1>a, <1>b, <2>2, <3>2, <3>3, <3>4
  <2> QED
    BY <2>3, <2>4
<1>5. ASSUME NEW w \in Workers, Write(w) PROVE Goal
  <2>1. job[w].fd \in Files /\ job[w].fd = file[0] /\ file[0] # None /\ 0 \in Names
    BY <1>0, <1>5, BackupsType DEF Write, At, PlacesOK, AloneOK, Files, None
  <2>2. /\ file' = file /\ written' = written + 1 /\ written \in Nat
        /\ lines'[file[0]] = lines[file[0]] \cup {written + 1}
        /\ \A f \in Files \ {file[0]} : lines'[f] = lines[f]
    BY <1>5, <2>1 DEF Write, LogTypeOK
  <2>3. \A n \in Names \ {0} : file[n] # None =>
          /\ file[n] # file[0] /\ file[n] \in Files /\ lines'[file[n]] = lines[file[n]]
    BY <2>1, <2>2 DEF OrderInv, SinceOK, LogTypeOK, Files, None
  <2>4. \A n \in Names : file[n] # None => lines[file[n]] \subseteq 1..written
    BY DEF LogTypeOK
  <2>5. Kept' = Kept \cup {written + 1} /\ Kept \subseteq 1..written
    BY <2>1, <2>2, <2>3, <2>4 DEF Kept
  <2>6. Lost' = Lost
    BY <2>2, <2>5 DEF Lost
  <2>7. ASSUME NEW l \in Lost' \cap Recent', NEW k \in Kept' PROVE l < k
    <3>1. l \in Lost /\ l \in 1..written
      BY <2>6, <2>7 DEF Lost
    <3>2. l \in Recent
      BY <1>a, <1>b, <2>2, <2>7, <3>1
    <3>3. CASE k \in Kept
      BY <1>a, <3>1, <3>2, <3>3
    <3>4. CASE k = written + 1
      BY <2>2, <3>1, <3>4
    <3> QED
      BY <2>5, <2>7, <3>3, <3>4
  <2>8. ASSUME NEW m \in Names, NEW n \in Names, m < n, file'[m] # None, file'[n] # None
        PROVE  \A k \in lines'[file'[m]], l \in lines'[file'[n]] \cap Recent' : l < k
    <3>1. n # 0 /\ file' = file /\ lines'[file[n]] = lines[file[n]]
      BY <2>2, <2>3, <2>8 DEF Names
    <3>2. CASE m = 0
      BY <1>a, <1>b, <2>2, <2>4, <2>8, <3>1, <3>2
    <3>3. CASE m # 0
      <4>1. lines'[file[m]] = lines[file[m]]
        BY <2>2, <2>3, <2>8, <3>3
      <4>2. \A l \in lines[file[n]] : l \in Recent' => l \in Recent
        BY <1>a, <1>b, <2>2, <2>4, <2>8
      <4> QED
        BY <1>a, <2>2, <2>8, <3>1, <4>1, <4>2
    <3> QED
      BY <3>2, <3>3
  <2> QED
    BY <2>7, <2>8
<1>6. ASSUME NEW w \in Workers, Abort(w) PROVE Goal
  BY <1>1, <1>6 DEF Abort
<1>7. ASSUME NEW w \in Workers, Call(w) \/ Size(w) \/ Oldest(w) \/ Source(w) \/ Crash(w) PROVE Goal
  BY <1>1, <1>7 DEF Call, Size, Oldest, Source, Crash, Step
<1>8. ASSUME NEW w \in Workers, Drop(w) \/ Move(w) PROVE Goal
  BY <1>2, <1>3, <1>6, <1>8 DEF Drop, Move
<1>9. CASE UNCHANGED vars
  BY <1>1, <1>9 DEF vars
<1> QED
  BY <1>4, <1>5, <1>7, <1>8, <1>9 DEF Next, LogNext

--------------------------------------------------------------------------------
(* How much is lost, as long as no two calls overlap *)

LEMMA FullTimes ==
  \A n \in Nat : Full * n \in Nat /\ Full * (n + 1) = Full * n + Full
  BY LogConstants DEF LogConstants

Rotating == {"oldest", "drop", "source", "move"}

LEMMA LinesNowType ==
  ASSUME LogTypeOK
  PROVE  LinesNow \in Nat
<1>1. CASE file[0] = None
  BY <1>1 DEF LinesNow
<1>2. CASE file[0] # None
  <2>1. file[0] \in Files
    BY <1>2, BackupsType DEF LogTypeOK
  <2> QED
    BY <1>2, <2>1, LinesFinite DEF LinesNow
<1> QED
  BY <1>1, <1>2

\* What AgeOK says of one name
Aged(n) ==
  file[n] # None => \A k \in lines[file[n]] \cap Recent :
    k + LinesNow + Full * (n - 1) <= written + Full * Kills + IF Shifting(n) THEN Full ELSE 0

LEMMA AgeParts ==
  AgeOK <=>
    (Races = 0 =>
       /\ \A w \in Workers : job[w].pc \in Rotating => LinesNow >= Full
       /\ \A n \in 1..Backups : Aged(n)
       /\ \A l \in Lost \cap Recent : l + Full * Backups <= written + Full * Kills)
  BY DEF AgeOK, Aged, Rotating

\* What can still be read is not lost.
LEMMA LostShrinks ==
  ASSUME written' = written, \A k \in Kept : k \in Kept'
  PROVE  \A l \in Lost' : l \in Lost
  BY DEF Lost

\* The helper at work is the only one, so that only it can be in a rotation.
LEMMA OnlyOne ==
  ASSUME LogTypeOK, AloneOK, Races = 0, NEW w \in Active, NEW j, Become(w, j)
  PROVE  /\ \A v \in Workers : v # w => job[v].pc = "off" /\ job'[v].pc = "off"
         /\ job'[w] = j
         /\ \A n : Shifting(n) <=> job[w].pc \in {"source", "move"} /\ job[w].index + 1 < n
         /\ \A n : Shifting(n)' <=> j.pc \in {"source", "move"} /\ j.index + 1 < n
<1>1. w \in Workers
  BY DEF Active
<1>2. \A v \in Workers : v # w => job[v].pc = "off" /\ job'[v].pc = "off"
  BY DEF AloneOK, Active, Become, LogTypeOK, At
<1>3. job'[w] = j
  BY <1>1 DEF Become, LogTypeOK
<1> QED
  BY <1>1, <1>2, <1>3 DEF Shifting

LEMMA AgeStep ==
  LogTypeOK /\ PlacesOK /\ OrderInv /\ [Next]_vars => AgeOK'
<1> SUFFICES ASSUME LogTypeOK, PlacesOK, OrderInv, [Next]_vars, Races' = 0
             PROVE  /\ \A w \in Workers : job'[w].pc \in Rotating => LinesNow' >= Full
                    /\ \A n \in 1..Backups : Aged(n)'
                    /\ \A l \in Lost' \cap Recent' : l + Full * Backups <= written' + Full * Kills'
  BY DEF AgeOK, Aged, Rotating
<1> DEFINE Goal == /\ \A w \in Workers : job'[w].pc \in Rotating => LinesNow' >= Full
                   /\ \A n \in 1..Backups : Aged(n)'
                   /\ \A l \in Lost' \cap Recent' : l + Full * Backups <= written' + Full * Kills'
<1>11. CASE TakesStock
  <2>1. /\ Recent' = {} /\ \A v \in Workers : job'[v].pc \in {"off", "size"}
    BY <1>11, StockTaken
  <2> QED
    BY <2>1 DEF Aged, Rotating
<1> SUFFICES ASSUME ~TakesStock PROVE Goal
  BY <1>11
<1>0. Races = 0 /\ AloneOK /\ since' = since
  BY RacesEnd, SinceType DEF OrderInv
<1>e. /\ Kills \in Nat /\ Recent \subseteq 1..written /\ since.written \in Nat
      /\ crashes' = crashes => Kills' = Kills
      /\ crashes' = crashes + 1 => Kills' = Kills + 1
      /\ written' = written => Recent' = Recent
      /\ \A l \in 1..written : l \in Recent' => l \in Recent
  <2>1. Kills \in Nat /\ Recent \subseteq 1..written /\ since.written \in Nat
    BY SinceType DEF OrderInv
  <2>2. crashes \in Nat /\ since.crashes \in 0..crashes
    BY LogConstants DEF LogConstants, LogTypeOK, OrderInv, SinceOK
  <2>3. \A l \in 1..written : l \in Recent' => l \in Recent
    BY <1>0, <2>1 DEF Recent
  <2> QED
    BY <1>0, <2>1, <2>2, <2>3 DEF Kills, Recent
<1>a. /\ \A w \in Workers : job[w].pc \in Rotating => LinesNow >= Full
      /\ \A n \in 1..Backups : Aged(n)
      /\ \A l \in Lost \cap Recent : l + Full * Backups <= written + Full * Kills
  BY <1>0, AgeParts DEF OrderInv
<1>b. /\ written \in Nat /\ Kills \in Nat /\ LinesNow \in Nat /\ Full \in Nat /\ Backups \in Nat
      /\ Backups >= 1 /\ Full >= 1
      /\ \A n \in Names : n \in Nat
      /\ \A n \in 1..Backups : n \in Names /\ n - 1 \in Nat
      /\ \A n \in Names : file[n] # None => file[n] \in Files /\ lines[file[n]] \subseteq 1..written
  BY <1>e, LogConstants, LinesNowType DEF LogConstants, LogTypeOK, Names
<1>c. \A n \in Nat : Full * n \in Nat /\ Full * (n + 1) = Full * n + Full
  BY FullTimes
<1>d. \A w \in Workers : /\ At(w, "drop") => file[Backups] # None
                         /\ At(w, "move") => file[job[w].index] # None
  BY <1>0 DEF AloneOK, Doomed, At
\* Nothing is written, and nothing moves.
<1>1. ASSUME NEW w \in Active, NEW j, Become(w, j),
             file' = file, lines' = lines, written' = written, crashes' = crashes,
             j.pc \in Rotating => LinesNow >= Full,
             \A n \in 1..Backups :
                file[n] # None /\ job[w].pc \in {"source", "move"} /\ job[w].index + 1 < n =>
                   j.pc \in {"source", "move"} /\ j.index + 1 < n
      PROVE  Goal
  <2>1. /\ \A v \in Workers : v # w => job'[v].pc = "off"
        /\ job'[w] = j
        /\ \A n \in 1..Backups : file[n] # None /\ Shifting(n) => Shifting(n)'
    BY <1>0, <1>1, OnlyOne
  <2>2. LinesNow' = LinesNow /\ Lost' = Lost
    BY <1>1 DEF LinesNow, Lost, Kept
  <2>3. ASSUME NEW v \in Workers, job'[v].pc \in Rotating PROVE LinesNow' >= Full
    BY <1>1, <2>1, <2>2, <2>3 DEF Rotating
  <2>4. ASSUME NEW n \in 1..Backups PROVE Aged(n)'
    <3> SUFFICES ASSUME file[n] # None, NEW k \in lines[file[n]] \cap Recent
                 PROVE  k + LinesNow + Full * (n - 1) <=
                          written + Full * Kills + IF Shifting(n)' THEN Full ELSE 0
      BY <1>e, <1>1, <2>2 DEF Aged
    <3>1. k + LinesNow + Full * (n - 1) <= written + Full * Kills + IF Shifting(n) THEN Full ELSE 0
      BY <1>e, <1>a DEF Aged
    <3>2. k \in Nat /\ Full * (n - 1) \in Nat /\ Full * Kills \in Nat
      BY <1>b, <1>c
    <3> QED
      BY <1>b, <2>1, <3>1, <3>2
  <2> QED
    BY <1>e, <1>1, <1>a, <2>2, <2>3, <2>4
<1>2. ASSUME NEW w \in Workers, Call(w) PROVE Goal
  <2>1. /\ \A v \in Workers : At(v, "off")
        /\ file' = file /\ lines' = lines /\ written' = written /\ crashes' = crashes
        /\ Become(w, [Idle EXCEPT !.pc = "size"])
    BY <1>0, <1>2 DEF Call, Races, OrderInv, SinceOK, LogTypeOK
  <2>2. \A v \in Workers : job'[v].pc \in {"off", "size"} /\ job[v].pc = "off"
    BY <2>1 DEF Become, At, Idle, LogTypeOK
  <2>3. \A n : ~Shifting(n) /\ ~Shifting(n)'
    BY <2>2 DEF Shifting
  <2>4. LinesNow' = LinesNow /\ Lost' = Lost
    BY <2>1 DEF LinesNow, Lost, Kept
  <2>5. \A n \in 1..Backups : Aged(n)'
    BY <1>e, <1>a, <2>1, <2>3, <2>4 DEF Aged
  <2> QED
    BY <1>e, <1>a, <2>1, <2>2, <2>4, <2>5 DEF Rotating
<1>3. ASSUME NEW w \in Workers, Size(w) PROVE Goal
  <2>1. w \in Active /\ job[w].pc = "size"
    BY <1>3 DEF Size, Active, At
  <2>2. CASE file[0] # None /\ Cardinality(lines[file[0]]) >= Full
    BY <1>1, <1>3, <2>1, <2>2 DEF Size, Step, Idle, LinesNow
  <2>3. CASE ~(file[0] # None /\ Cardinality(lines[file[0]]) >= Full)
    BY <1>1, <1>3, <2>1, <2>3 DEF Size, Step, Idle, Rotating
  <2> QED
    BY <2>2, <2>3
<1>4. ASSUME NEW w \in Workers, Oldest(w) PROVE Goal
  <2>1. w \in Active /\ job[w].pc = "oldest" /\ LinesNow >= Full
    BY <1>4, <1>a DEF Oldest, Active, At, Rotating
  <2>2. CASE file[Backups] = None
    BY <1>1, <1>4, <2>1, <2>2 DEF Oldest, Step
  <2>3. CASE file[Backups] # None
    BY <1>1, <1>4, <2>1, <2>3 DEF Oldest, Step, Idle
  <2> QED
    BY <2>2, <2>3
<1>5. ASSUME NEW w \in Workers, Source(w) PROVE Goal
  <2>1. w \in Active /\ job[w].pc = "source" /\ LinesNow >= Full
    BY <1>5, <1>a DEF Source, Active, At, Rotating
  <2>2. job[w].index \in 1..(Backups - 1) /\ job[w] \in Jobs
    BY <1>5 DEF Source, PlacesOK, At, LogTypeOK
  <2>3. CASE file[job[w].index] = None
    <3>1. /\ Shift(job[w].index - 1).index = job[w].index - 1
          /\ Shift(job[w].index - 1).pc \in {"source", "move"}
      BY DEF Shift
    <3>2. \A n \in 1..Backups : job[w].index + 1 < n => (job[w].index - 1) + 1 < n
      BY <1>b, <2>2
    <3> QED
      BY <1>1, <1>5, <2>1, <2>3, <3>1, <3>2 DEF Source, Step
  <2>4. CASE file[job[w].index] # None
    <3> DEFINE j == [job[w] EXCEPT !.pc = "move"]
    <3>1. j.pc = "move" /\ j.index = job[w].index
      BY <2>2 DEF Jobs
    <3>2. Become(w, j) /\ UNCHANGED <<file, lines, written, crashes>>
      BY <1>5, <2>4 DEF Source, Step
    <3> HIDE DEF j
    <3> QED
      BY <1>1, <2>1, <3>1, <3>2
  <2> QED
    BY <2>3, <2>4
<1>6. ASSUME NEW w \in Workers, Drop(w) PROVE Goal
  <2>0. file[Backups] # None
    BY <1>6, <1>d DEF Drop
  <2>1. /\ w \in Active /\ job[w].pc = "drop" /\ LinesNow >= Full
        /\ file' = [file EXCEPT ![Backups] = None] /\ Become(w, Shift(Backups - 1))
        /\ lines' = lines /\ written' = written /\ crashes' = crashes
    BY <1>6, <1>a, <2>0 DEF Drop, Active, At, Rotating
  <2>2. file'[Backups] = None /\ \A n \in Names \ {Backups} : file'[n] = file[n]
    BY <2>1, BackupsType DEF LogTypeOK
  <2>3. LinesNow' = LinesNow
    BY <1>b, <2>1, <2>2, BackupsType DEF LinesNow
  <2>4. \A n : ~Shifting(n)
    BY <1>0, <2>1, OnlyOne
  <2>5. ASSUME NEW n \in 1..Backups PROVE Aged(n)'
    <3> SUFFICES ASSUME file'[n] # None, NEW k \in lines[file'[n]] \cap Recent
                 PROVE  k + LinesNow + Full * (n - 1) <=
                          written + Full * Kills + IF Shifting(n)' THEN Full ELSE 0
      BY <1>e, <2>1, <2>3 DEF Aged
    <3>1. file'[n] = file[n] /\ file[n] # None /\ k \in lines[file[n]]
      BY <1>b, <2>2
    <3>a. k + LinesNow + Full * (n - 1) <= written + Full * Kills + 0
      BY <1>e, <1>a, <2>4, <3>1 DEF Aged
    <3>2. k + LinesNow + Full * (n - 1) <= written + Full * Kills
      BY <1>b, <1>c, <3>a
    <3>3. k \in Nat
      BY <1>b, <3>1
    <3>4. Full * (n - 1) \in Nat /\ Full * Kills \in Nat
      BY <1>b, <1>c
    <3> QED
      BY <1>b, <3>2, <3>3, <3>4
  <2>6. ASSUME NEW l \in Lost' \cap Recent PROVE l + Full * Backups <= written + Full * Kills
    <3>1. CASE l \in Lost
      BY <1>a, <2>6, <3>1
    <3>2. CASE l \notin Lost
      <4>1. PICK n \in Names : file[n] # None /\ l \in lines[file[n]]
        BY <2>1, <2>6, <3>2 DEF Lost, Kept
      <4>2. n = Backups
        BY <2>1, <2>2, <2>6, <4>1 DEF Lost, Kept
      <4>a. Aged(Backups)
        BY <1>a, <1>b
      <4>b. l + LinesNow + Full * (Backups - 1) <= written + Full * Kills + 0
        BY <1>e, <2>4, <4>1, <4>2, <4>a DEF Aged
      <4>3. l + LinesNow + Full * (Backups - 1) <= written + Full * Kills
        BY <1>b, <1>c, <4>b
      <4>4. Full * Backups = Full * (Backups - 1) + Full
        BY <1>b, <1>c
      <4>5. l \in Nat
        BY <1>b, <4>1
      <4>6. Full * (Backups - 1) \in Nat /\ Full * Kills \in Nat
        BY <1>b, <1>c
      <4> QED
        BY <1>b, <2>1, <4>3, <4>4, <4>5, <4>6
    <3> QED
      BY <3>1, <3>2
  <2> QED
    BY <1>e, <2>1, <2>3, <2>5, <2>6
<1>7. ASSUME NEW w \in Workers, Move(w) PROVE Goal
  <2> DEFINE i == job[w].index
  <2>0. file[i] # None
    BY <1>7, <1>d DEF Move
  <2>1. /\ w \in Active /\ job[w].pc = "move" /\ LinesNow >= Full
        /\ i \in Names /\ i + 1 \in Names /\ i \in Nat /\ i + 1 \in 1..Backups /\ file[i + 1] = None
    BY <1>7, <1>0, <1>a, <1>b DEF Move, Active, At, PlacesOK, AloneOK, Names, Rotating
  <2>2. /\ file' = [file EXCEPT ![i + 1] = file[i], ![i] = None]
        /\ Become(w, IF i = 0 THEN [Idle EXCEPT !.pc = "open"] ELSE Shift(i - 1))
        /\ lines' = lines /\ written' = written /\ crashes' = crashes
    BY <1>7, <2>0 DEF Move
  <2>3. /\ file'[i] = None /\ file'[i + 1] = file[i]
        /\ \A n \in Names \ {i, i + 1} : file'[n] = file[n]
    BY <2>1, <2>2 DEF LogTypeOK
  <2>4. \A l \in Lost' \cap Recent' : l + Full * Backups <= written + Full * Kills
    <3>1. ASSUME NEW k \in Kept PROVE k \in Kept'
      <4>1. PICK n \in Names : file[n] # None /\ k \in lines[file[n]]
        BY DEF Kept
      <4>2. file'[IF n = i THEN i + 1 ELSE n] = file[n]
        BY <2>1, <2>3, <4>1
      <4> QED
        BY <2>1, <2>2, <4>1, <4>2 DEF Kept
    <3>2. \A l \in Lost' : l \in Lost
      BY <2>2, <3>1, LostShrinks
    <3> QED
      BY <1>a, <1>e, <2>2, <3>2
  <2>5. \A n : Shifting(n) <=> i + 1 < n
    BY <1>0, <2>1, <2>2, OnlyOne
  <2>6. CASE i = 0
    <3>1. LinesNow' = 0 /\ \A v \in Workers : job'[v].pc \in {"off", "open"}
      <4>1. file'[0] = None
        BY <2>3, <2>6
      <4>2. Become(w, [Idle EXCEPT !.pc = "open"])
        BY <2>2, <2>6
      <4>3. /\ \A v \in Workers : v # w => job'[v].pc = "off"
            /\ job'[w] = [Idle EXCEPT !.pc = "open"]
        BY <1>0, <2>1, <4>2, OnlyOne
      <4> QED
        BY <4>1, <4>3 DEF LinesNow, Idle
    <3>2. ASSUME NEW n \in 1..Backups PROVE Aged(n)'
      <4> SUFFICES ASSUME file'[n] # None, NEW k \in lines[file'[n]] \cap Recent
                   PROVE  k + LinesNow' + Full * (n - 1) <=
                            written + Full * Kills + IF Shifting(n)' THEN Full ELSE 0
        BY <1>e, <2>2 DEF Aged
      <4>0. Full * Kills \in Nat /\ Full * (n - 1) \in Nat /\ n \in Names
        BY <1>b, <1>c
      <4>1. CASE n = 1
        <5>0. file'[n] = file[0] /\ file[0] # None
          BY <2>0, <2>3, <2>6, <4>1
        <5>1. k \in 1..written /\ Full * (n - 1) = 0
          BY <1>b, <4>1, <5>0, BackupsType
        <5> QED
          BY <1>b, <3>1, <4>0, <5>1
      <4>2. CASE n # 1
        <5>1. file'[n] = file[n] /\ file[n] # None /\ k \in lines[file[n]] /\ k \in Nat
          BY <1>b, <2>3, <2>6, <4>0, <4>2
        <5>a. k + LinesNow + Full * (n - 1) <= written + Full * Kills + IF Shifting(n) THEN Full ELSE 0
          BY <1>e, <1>a, <5>1 DEF Aged
        <5>2. k + LinesNow + Full * (n - 1) <= written + Full * Kills + Full
          BY <1>b, <4>0, <5>1, <5>a
        <5> QED
          BY <1>b, <2>1, <3>1, <4>0, <5>1, <5>2
      <4> QED
        BY <4>1, <4>2
    <3> QED
      BY <1>e, <2>2, <2>4, <3>1, <3>2 DEF Rotating
  <2>7. CASE i # 0
    <3>0. file'[0] = file[0]
      <4>1. 0 \in Names /\ 0 # i /\ 0 # i + 1
        BY <2>1, <2>7, BackupsType
      <4> QED
        BY <2>3, <4>1
    <3>1. LinesNow' = LinesNow
      BY <2>2, <3>0 DEF LinesNow
    <3>2. /\ Become(w, Shift(i - 1))
          /\ Shift(i - 1).pc \in {"source", "move"} /\ Shift(i - 1).index = i - 1
      BY <2>2, <2>7 DEF Shift
    <3>3. \A n : Shifting(n)' <=> (i - 1) + 1 < n
      BY <1>0, <2>1, <3>2, OnlyOne
    <3>4. ASSUME NEW n \in 1..Backups PROVE Aged(n)'
      <4> SUFFICES ASSUME file'[n] # None, NEW k \in lines[file'[n]] \cap Recent
                   PROVE  k + LinesNow + Full * (n - 1) <=
                            written + Full * Kills + IF Shifting(n)' THEN Full ELSE 0
        BY <1>e, <2>2, <3>1 DEF Aged
      <4>0. /\ Full * Kills \in Nat /\ Full * (n - 1) \in Nat /\ n \in Names /\ n \in Nat
            /\ Full * i = Full * (i - 1) + Full /\ Full * (i - 1) \in Nat /\ i \in 1..Backups
        BY <1>b, <1>c, <2>1, <2>7
      <4>1. CASE n = i + 1
        <5>0. k \in lines[file[i]] /\ k \in Nat
          BY <1>b, <2>0, <2>1, <2>3, <4>1
        <5>a. ~Shifting(i)
          BY <2>1, <2>5
        <5>b. (i - 1) + 1 < n
          BY <2>1, <4>1
        <5>c. Shifting(n)'
          BY <3>3, <5>b
        <5>1. k \in lines[file[i]] /\ k \in Nat /\ ~Shifting(i) /\ Shifting(n)'
          BY <5>0, <5>a, <5>c
        <5>d. Aged(i)
          BY <1>a, <4>0
        <5>e. k + LinesNow + Full * (i - 1) <= written + Full * Kills + 0
          BY <1>e, <2>0, <5>1, <5>d DEF Aged
        <5>2. k + LinesNow + Full * (i - 1) <= written + Full * Kills
          BY <1>b, <4>0, <5>e
        <5>3. n - 1 = i
          BY <2>1, <4>1
        <5> QED
          BY <1>b, <4>0, <5>1, <5>2, <5>3
      <4>2. CASE n # i + 1
        <5>1. file'[n] = file[n] /\ file[n] # None /\ k \in lines[file[n]] /\ k \in Nat
          BY <1>e, <1>b, <2>3, <4>0, <4>2
        <5>2. Shifting(n) => Shifting(n)'
          BY <2>1, <2>5, <3>3, <4>0
        <5>3. k + LinesNow + Full * (n - 1) <= written + Full * Kills + IF Shifting(n) THEN Full ELSE 0
          BY <1>e, <1>a, <5>1 DEF Aged
        <5> QED
          BY <1>b, <4>0, <5>1, <5>2, <5>3
      <4> QED
        BY <4>1, <4>2
    <3> QED
      BY <1>e, <2>1, <2>2, <2>4, <3>1, <3>4
  <2> QED
    BY <2>6, <2>7
<1>8. ASSUME NEW w \in Workers, Open(w) PROVE Goal
  <2>1. PICK f \in Files : /\ IF file[0] = None THEN f \notin Created ELSE f = file[0]
                           /\ file' = [file EXCEPT ![0] = f]
                           /\ Become(w, [pc |-> "write", index |-> 0, fd |-> f])
    BY <1>8, Zenon DEF Open
  <2>2. /\ w \in Active /\ job[w].pc = "open"
        /\ lines' = lines /\ written' = written /\ crashes' = crashes
    BY <1>8 DEF Open, Active, At
  <2>3. file'[0] = f /\ f # None /\ \A n \in Names \ {0} : file'[n] = file[n]
    BY <2>1, BackupsType DEF LogTypeOK, Files, None
  <2>4. lines[f] = {} \/ f = file[0]
    BY <2>1 DEF Created
  <2>5. LinesNow' = LinesNow
    <3>1. CASE file[0] = None
      <4>1. f # file[0]
        BY <2>3, <3>1
      <4> QED
        BY <2>2, <2>3, <2>4, <3>1, <4>1, FS_EmptySet DEF LinesNow
    <3>2. CASE file[0] # None
      <4>1. f = file[0]
        BY <2>1, <3>2
      <4> QED
        BY <2>2, <2>3, <3>2, <4>1 DEF LinesNow
    <3> QED
      BY <3>1, <3>2
  <2>6. /\ \A v \in Workers : job'[v].pc \notin Rotating
        /\ \A n : ~Shifting(n) /\ ~Shifting(n)'
    <3>1. /\ \A v \in Workers : v # w => job[v].pc = "off" /\ job'[v].pc = "off"
          /\ job'[w].pc = "write"
      BY <1>0, <2>1, <2>2, OnlyOne
    <3> QED
      BY <2>2, <3>1 DEF Shifting, Rotating
  <2>7. ASSUME NEW n \in 1..Backups PROVE Aged(n)'
    <3>1. file'[n] = file[n]
      BY <1>b, <2>3
    <3> QED
      BY <1>e, <1>a, <2>2, <2>5, <2>6, <3>1 DEF Aged
  <2>8. ASSUME NEW k \in Kept PROVE k \in Kept'
    <3>1. PICK n \in Names : file[n] # None /\ k \in lines[file[n]]
      BY DEF Kept
    <3>2. file'[n] = file[n]
      BY <2>1, <2>3, <3>1
    <3> QED
      BY <2>2, <3>1, <3>2 DEF Kept
  <2> QED
    BY <1>e, <1>a, <2>2, <2>6, <2>7, <2>8, LostShrinks
<1>9. ASSUME NEW w \in Workers, Write(w) PROVE Goal
  <2>1. /\ w \in Active /\ job[w].pc = "write" /\ file[0] \in Files
        /\ lines' = [lines EXCEPT ![file[0]] = @ \cup {written + 1}]
        /\ written' = written + 1 /\ file' = file /\ crashes' = crashes
        /\ Become(w, Idle)
    BY <1>0, <1>9 DEF Write, Active, At, AloneOK, PlacesOK
  <2>2. /\ file[0] # None /\ lines'[file[0]] = lines[file[0]] \cup {written + 1}
        /\ \A f \in Files \ {file[0]} : lines'[f] = lines[f]
    BY <2>1 DEF LogTypeOK, Files, None
  <2>3. LinesNow' = LinesNow + 1
    <3>1. written + 1 \notin lines[file[0]]
      BY <1>b, <2>2, BackupsType
    <3>2. IsFiniteSet(lines[file[0]])
      BY <2>1, LinesFinite
    <3>3. Cardinality(lines[file[0]] \cup {written + 1}) = Cardinality(lines[file[0]]) + 1
      BY <3>1, <3>2, FS_AddElement
    <3> QED
      BY <2>1, <2>2, <3>3 DEF LinesNow
  <2>4. /\ \A v \in Workers : job'[v].pc \notin Rotating
        /\ \A n : ~Shifting(n) /\ ~Shifting(n)'
    <3>1. /\ \A v \in Workers : v # w => job[v].pc = "off" /\ job'[v].pc = "off"
          /\ job'[w].pc = "off"
      BY <1>0, <2>1, OnlyOne DEF Idle
    <3> QED
      BY <2>1, <3>1 DEF Shifting, Rotating
  <2>5. ASSUME NEW n \in 1..Backups PROVE Aged(n)'
    <3> SUFFICES ASSUME file[n] # None, NEW k \in lines'[file[n]] \cap Recent'
                 PROVE  k + (LinesNow + 1) + Full * (n - 1) <=
                          (written + 1) + Full * Kills + 0
      BY <1>e, <2>1, <2>3, <2>4 DEF Aged
    <3>1. file[n] \in Files \ {file[0]}
      BY <1>b, BackupsType DEF OrderInv, SinceOK
    <3>2. k \in lines[file[n]] \cap Recent /\ k \in Nat
      BY <1>e, <1>b, <2>2, <3>1
    <3>3. k + LinesNow + Full * (n - 1) <= written + Full * Kills + 0
      BY <1>e, <1>a, <2>4, <3>2 DEF Aged
    <3> QED
      BY <1>b, <1>c, <3>2, <3>3
  <2>6. ASSUME NEW l \in Lost' \cap Recent' PROVE l + Full * Backups <= written' + Full * Kills'
    <3>1. written + 1 \in Kept'
      BY <2>1, <2>2, BackupsType DEF Kept
    <3>2. ASSUME NEW k \in Kept PROVE k \in Kept'
      <4>1. PICK n \in Names : file[n] # None /\ k \in lines[file[n]]
        BY DEF Kept
      <4>2. k \in lines'[file[n]]
        BY <1>b, <2>2, <4>1
      <4> QED
        BY <2>1, <4>1, <4>2 DEF Kept
    <3>3. l \in Lost
      BY <1>b, <2>1, <2>6, <3>1, <3>2 DEF Lost
    <3>4. l \in Nat /\ l + Full * Backups <= written + Full * Kills
      BY <1>e, <2>6, <1>a, <1>b, <3>3 DEF Lost
    <3> QED
      BY <1>e, <1>b, <1>c, <2>1, <3>4
  <2> QED
    BY <2>4, <2>5, <2>6
\* The gap that the kill leaves is the backup that the rotation was to free.
<1>10. ASSUME NEW w \in Workers, Crash(w) PROVE Goal
  <2>1. /\ w \in Active /\ Become(w, Idle)
        /\ file' = file /\ lines' = lines /\ written' = written /\ crashes' = crashes + 1
    BY <1>10 DEF Crash, Active
  <2>2. /\ \A v \in Workers : job'[v].pc \notin Rotating
        /\ \A n : ~Shifting(n)'
    <3>1. /\ \A v \in Workers : v # w => job'[v].pc = "off"
          /\ job'[w].pc = "off"
      BY <1>0, <2>1, OnlyOne DEF Idle
    <3> QED
      BY <3>1 DEF Shifting, Rotating
  <2>3. LinesNow' = LinesNow /\ Lost' = Lost
    BY <2>1 DEF LinesNow, Lost, Kept
  <2>4. /\ Full * Kills' = Full * Kills + Full
        /\ Full * Kills \in Nat /\ Full * Backups \in Nat
    BY <1>b, <1>c, <1>e, <2>1
  <2>5. ASSUME NEW n \in 1..Backups PROVE Aged(n)'
    <3> SUFFICES ASSUME file[n] # None, NEW k \in lines[file[n]] \cap Recent
                 PROVE  k + LinesNow + Full * (n - 1) <= written + Full * Kills' + 0
      BY <1>e, <2>1, <2>2, <2>3 DEF Aged
    <3>1. k + LinesNow + Full * (n - 1) <= written + Full * Kills + IF Shifting(n) THEN Full ELSE 0
      BY <1>e, <1>a DEF Aged
    <3>2. k \in Nat /\ Full * (n - 1) \in Nat
      BY <1>b, <1>c
    <3> QED
      BY <1>b, <2>4, <3>1, <3>2
  <2>6. ASSUME NEW l \in Lost \cap Recent PROVE l + Full * Backups <= written + Full * Kills'
    BY <1>a, <1>b, <2>4 DEF Lost
  <2> QED
    BY <1>e, <2>1, <2>2, <2>3, <2>5, <2>6
<1>12. CASE UNCHANGED vars
  <2>1. /\ file' = file /\ lines' = lines /\ written' = written
        /\ crashes' = crashes /\ job' = job
    BY <1>12 DEF vars
  <2>2. LinesNow' = LinesNow /\ Lost' = Lost /\ \A n : Shifting(n)' <=> Shifting(n)
    BY <2>1 DEF LinesNow, Lost, Kept, Shifting
  <2>3. ASSUME NEW n \in 1..Backups PROVE Aged(n)'
    BY <1>e, <1>a, <2>1, <2>2 DEF Aged
  <2> QED
    BY <1>e, <1>a, <2>1, <2>2, <2>3
<1> QED
  BY <1>2, <1>3, <1>4, <1>5, <1>6, <1>7, <1>8, <1>9, <1>10, <1>12 DEF Next, LogNext

\* Whatever is lost is one of the first lines, and these are few.
LEMMA FirstFew ==
  ASSUME LogTypeOK, SinceOK, NEW L,
         L \subseteq {l \in Recent : l + Full * Backups <= written + Full * Kills}
  PROVE  Cardinality(L) \in Nat /\ Cardinality(L) <= Kills * Full + Excess
<1> DEFINE room == Full * Backups
           spare == Full * Kills
           first == since.written
           last == written + spare - room
<1>1. /\ written \in Nat /\ first \in Nat /\ written - first \in Nat /\ room \in Nat /\ spare \in Nat
      /\ room = Backups * Full /\ spare = Kills * Full
  BY SinceType, LogConstants, FullTimes DEF LogConstants, LogTypeOK
<1>2. \A l \in L : l \in Nat /\ l >= first + 1 /\ l <= written /\ l + room <= written + spare
  BY <1>1 DEF Recent
<1>3. Excess = IF written - first > room THEN (written - first) - room ELSE 0
  BY <1>1 DEF Excess
<1>4. Excess \in Nat /\ last - first <= spare + Excess /\ last \in Int
  BY <1>1, <1>3
<1> HIDE DEF room, spare, first
<1>5. CASE last >= first + 1
  <2>1. L \in SUBSET ((first + 1)..last)
    BY <1>1, <1>2, <1>4
  <2>2. IsFiniteSet((first + 1)..last) /\ Cardinality((first + 1)..last) = last - first
    <3>1. first + 1 \in Int /\ ~(first + 1 > last) /\ last - (first + 1) + 1 = last - first
      BY <1>1, <1>4, <1>5
    <3> HIDE DEF last
    <3> QED
      BY <1>4, <3>1, FS_Interval
  <2> HIDE DEF last
  <2>3. Cardinality(L) \in Nat /\ Cardinality(L) <= last - first
    <3>1. IsFiniteSet(L) /\ Cardinality(L) <= Cardinality((first + 1)..last)
      BY <2>1, <2>2, FS_Subset
    <3> QED
      BY <2>2, <3>1, FS_CardinalityType
  <2> QED
    BY <1>1, <1>4, <2>3
<1>6. CASE ~(last >= first + 1)
  <2>1. L = {}
    BY <1>1, <1>2, <1>6
  <2> QED
    BY <1>1, <1>4, <2>1, FS_EmptySet
<1> QED
  BY <1>5, <1>6

LEMMA LossesCount ==
  ASSUME LogTypeOK, SinceOK, AgeOK, Races = 0
  PROVE  Cardinality(Lost \cap Recent) <= Kills * Full + Excess
<1>1. Lost \cap Recent \subseteq {l \in Recent : l + Full * Backups <= written + Full * Kills}
  BY DEF AgeOK
<1> QED
  BY <1>1, FirstFew

--------------------------------------------------------------------------------
(* Two calls that overlap: what their rotations can still cost *)

\* The rotation of w has freed this name, and deals with those below it:
\* all of them before it has begun, none of them when it is over.
Left(w) ==
  IF job[w].pc \in {"size", "oldest", "drop"} THEN Backups + 1
  ELSE IF job[w].pc \in {"source", "move"} THEN job[w].index + 1 ELSE 0

\* With the files named so, the file before n can only go to n at the cost of
\* another, and the last backup only be dropped.
Filled(n, named) == n = Backups + 1 \/ named[n] # None

\* So many backups can still be lost by a rotation that has come to a, and by one
\* ahead of it that has come to b.  In step, each goes ahead of the other in turn:
\* what the first has moved, the second writes over, and is ahead by that.  A
\* rotation well behind may cost one backup, and runs into a gap then.
More(a, b, named) ==
  IF a = b \/ (a = b + 1 /\ Filled(a, named)) THEN (a + 1) \div 2
  ELSE ((b + 1) \div 2) + IF Filled(a, named) /\ named[a - 1] # None THEN 1 ELSE 0

\* A rotation that has come to a goes on by one name.
GoesOn(a, named, then) ==
  /\ then[a - 1] = None
  /\ a \in Names => then[a] = IF named[a - 1] = None THEN named[a] ELSE named[a - 1]
  /\ \A n \in Names \ {a - 1, a} : then[n] = named[n]

LEMMA Half ==
  /\ 0 \div 2 = 0 /\ 1 \div 2 = 0
  /\ \A n \in Nat : /\ n \div 2 \in Nat /\ (n + 1) \div 2 \in Nat
                    /\ (n + 2) \div 2 = (n \div 2) + 1
                    /\ n \div 2 <= (n + 1) \div 2 /\ (n + 1) \div 2 <= (n \div 2) + 1
  OBVIOUS

LEMMA HalfGrows ==
  ASSUME NEW m \in Nat, NEW n \in Nat, m <= n
  PROVE  m \div 2 <= n \div 2
  OBVIOUS

LEMMA MoreType ==
  ASSUME NEW a \in Nat, NEW b \in Nat, NEW named
  PROVE  More(a, b, named) \in Nat
<1>1. (a + 1) \div 2 \in Nat /\ (b + 1) \div 2 \in Nat
  BY Half
<1> QED
  BY <1>1 DEF More

(* The rotation that is ahead moves a backup to a name that is free, which  *)
(* costs nothing, and what the other may cost then it could before.         *)
LEMMA MoreAhead ==
  ASSUME NEW a \in 1..(Backups + 1), NEW b \in 1..a, NEW named, NEW then,
         b \in 1..Backups => named[b] = None,
         GoesOn(b, named, then)
  PROVE  More(a, b - 1, then) <= More(a, b, named)
<1> USE LogConstants DEF LogConstants
<1>0. /\ a \in Nat /\ b \in Nat /\ b - 1 \in Nat /\ (b - 1) + 1 = b /\ b <= a /\ a <= Backups + 1
      /\ b \div 2 \in Nat /\ (b + 1) \div 2 \in Nat /\ b \div 2 <= (b + 1) \div 2
      /\ (b + 2) \div 2 = (b \div 2) + 1
  BY Half
<1>1. CASE a = b
  <2>1. More(a, b, named) = (b + 1) \div 2
    BY <1>1 DEF More
  <2>2. /\ Filled(a, then) => More(a, b - 1, then) = (b + 1) \div 2
        /\ ~Filled(a, then) => More(a, b - 1, then) = b \div 2
    BY <1>0, <1>1 DEF More
  <2> QED
    BY <1>0, <2>1, <2>2
<1>2. CASE a = b + 1
  <2>1. b \in 1..Backups /\ named[b] = None /\ b \in Names
    BY <1>0, <1>2 DEF Names
  <2>2. Filled(a, then) <=> Filled(a, named)
    <3>1. a \in Names => then[a] = named[a]
      BY <1>0, <1>2 DEF GoesOn
    <3> QED
      BY <1>0, <3>1 DEF Filled, Names
  <2>3. More(a, b - 1, then) <= (b \div 2) + IF Filled(a, then) THEN 1 ELSE 0
    BY <1>0, <1>2 DEF More
  <2>4. /\ Filled(a, named) => More(a, b, named) = (b \div 2) + 1
        /\ ~Filled(a, named) => More(a, b, named) = (b + 1) \div 2
    <3>1. a + 1 = b + 2
      BY <1>0, <1>2
    <3> QED
      BY <1>0, <1>2, <3>1 DEF More
  <2>5. More(a, b - 1, then) \in Nat /\ More(a, b, named) \in Nat
    BY <1>0, MoreType
  <2>6. CASE Filled(a, named)
    BY <1>0, <2>2, <2>3, <2>4, <2>5, <2>6
  <2>7. CASE ~Filled(a, named)
    BY <1>0, <2>2, <2>3, <2>4, <2>5, <2>7
  <2> QED
    BY <2>6, <2>7
<1>3. CASE a > b + 1
  <2>1. then[a - 1] = named[a - 1] /\ (Filled(a, then) <=> Filled(a, named))
    <3>1. a - 1 \in Names \ {b - 1, b} /\ (a \in Names => a \in Names \ {b - 1, b})
      BY <1>0, <1>3 DEF Names
    <3>2. a = Backups + 1 \/ a \in Names
      BY <1>0 DEF Names
    <3> QED
      BY <3>1, <3>2 DEF GoesOn, Filled
  <2> DEFINE x == IF Filled(a, named) /\ named[a - 1] # None THEN 1 ELSE 0
  <2>2. More(a, b, named) = ((b + 1) \div 2) + x
    BY <1>0, <1>3 DEF More
  <2>3. More(a, b - 1, then) = (b \div 2) + x
    BY <1>0, <1>3, <2>1 DEF More
  <2>4. x \in Nat
    OBVIOUS
  <2> HIDE DEF x
  <2> QED
    BY <1>0, <2>2, <2>3, <2>4
<1> QED
  BY <1>0, <1>1, <1>2, <1>3

(* The rotation that is behind may write over a backup, which it could cost *)
(* before and cannot afterwards.                                            *)
LEMMA MoreBehind ==
  ASSUME NEW a \in 1..(Backups + 1), NEW b \in 0..(a - 1), NEW named, NEW then,
         b \in 1..Backups => named[b] = None,
         GoesOn(a, named, then)
  PROVE  More(a - 1, b, then)
           + (IF Filled(a, named) /\ named[a - 1] # None THEN 1 ELSE 0) <= More(a, b, named)
<1> USE LogConstants DEF LogConstants
<1>0. /\ a \in Nat /\ b \in Nat /\ a - 1 \in Nat /\ b < a /\ a <= Backups + 1
      /\ (b + 1) \div 2 \in Nat /\ (b + 1) \div 2 <= (b + 2) \div 2 /\ (b + 2) \div 2 \in Nat
  <2>1. b + 1 \in Nat
    OBVIOUS
  <2>2. (b + 1) \div 2 \in Nat /\ (b + 1) \div 2 <= ((b + 1) + 1) \div 2 /\ ((b + 1) + 1) \div 2 \in Nat
    BY <2>1, Half
  <2> QED
    BY <2>2
<1> DEFINE x == IF Filled(a, named) /\ named[a - 1] # None THEN 1 ELSE 0
<1> SUFFICES More(a - 1, b, then) + x <= More(a, b, named)
  OBVIOUS
<1>1. CASE a = b + 1
  <2>1. More(a - 1, b, then) = (b + 1) \div 2
    BY <1>0, <1>1 DEF More
  <2>2. CASE b = 0
    <3>1. a = 1 /\ 1 \div 2 = 0 /\ 2 \div 2 = 1
      BY <1>1, <2>2
    <3> QED
      BY <2>1, <2>2, <3>1 DEF More
  <2>3. CASE b # 0
    <3>1. named[a - 1] = None
      BY <1>0, <1>1, <2>3
    <3>2. /\ Filled(a, named) => More(a, b, named) = (b + 2) \div 2
          /\ ~Filled(a, named) => More(a, b, named) = (b + 1) \div 2
      <4>1. a + 1 = b + 2
        BY <1>1
      <4> QED
        BY <1>0, <1>1, <4>1 DEF More
    <3> QED
      BY <1>0, <2>1, <3>1, <3>2
  <2> QED
    BY <2>2, <2>3
<1>2. CASE a > b + 1
  <2>1. More(a, b, named) = ((b + 1) \div 2) + x
    BY <1>0, <1>2 DEF More
  <2>2. ~Filled(a - 1, then)
    BY <1>0, <1>2 DEF Filled, GoesOn
  <2>3. More(a - 1, b, then) = (b + 1) \div 2
    BY <1>0, <1>2, <2>2 DEF More
  <2>4. x \in Nat
    OBVIOUS
  <2> HIDE DEF x
  <2> QED
    BY <1>0, <2>1, <2>3, <2>4
<1> QED
  BY <1>0, <1>1, <1>2

(* When one of the two rotations is over, the other can cost no more than   *)
(* both could, whatever becomes of log.txt.                                 *)
LEMMA MoreOver ==
  ASSUME NEW a \in 0..(Backups + 1), NEW b \in 0..a, NEW named, NEW then,
         b \in 1..Backups => named[b] = None,
         \A n \in 1..Backups : then[n] = named[n]
  PROVE  More(b, 0, then) <= More(a, b, named) /\ More(a, 0, then) <= More(a, b, named)
<1> USE LogConstants DEF LogConstants
<1>0. /\ a \in Nat /\ b \in Nat /\ b <= a /\ a <= Backups + 1
      /\ 1 \div 2 = 0 /\ 2 \div 2 = 1
      /\ \A n \in Nat : n >= 1 => (n + 1) \div 2 \in Nat /\ (n + 1) \div 2 >= 1
      /\ \A n \in Nat : n \div 2 \in Nat
  OBVIOUS
<1>1. CASE b = 0
  <2>1. More(b, 0, then) = 0 /\ More(a, b, named) \in Nat
    BY <1>0, <1>1, MoreType DEF More
  <2>2. CASE a = 0
    BY <1>0, <1>1, <2>1, <2>2 DEF More
  <2>3. CASE a = 1
    BY <1>0, <1>1, <2>1, <2>3 DEF More, Filled
  <2>4. CASE a > 1
    <3>1. then[a - 1] = named[a - 1] /\ (Filled(a, then) <=> Filled(a, named))
      BY <1>0, <2>4 DEF Filled
    <3> QED
      BY <1>0, <1>1, <2>1, <2>4, <3>1 DEF More
  <2> QED
    BY <1>0, <2>2, <2>3, <2>4
<1>2. CASE b # 0
  <2>1. More(a, b, named) \in Nat /\ More(a, b, named) >= 1
    <3>1. (a + 1) \div 2 \in Nat /\ (a + 1) \div 2 >= 1 /\ (b + 1) \div 2 \in Nat /\ (b + 1) \div 2 >= 1
      BY <1>0, <1>2
    <3> QED
      BY <3>1 DEF More
  <2>2. \A n \in Nat : n >= 1 => More(n, 0, then) <= 1
    BY <1>0 DEF More
  <2>3. More(a, 0, then) \in Nat /\ More(b, 0, then) \in Nat
    BY <1>0, MoreType
  <2> QED
    BY <1>0, <1>2, <2>1, <2>2, <2>3
<1> QED
  BY <1>1, <1>2

\* What a call costs at most that begins while another has come to b
LEMMA MoreAtFirst ==
  ASSUME NEW b \in 0..(Backups + 1), NEW named
  PROVE  More(Backups + 1, b, named) <= (Backups \div 2) + 1
<1> USE LogConstants DEF LogConstants
<1>1. (Backups + 2) \div 2 = (Backups \div 2) + 1 /\ Backups \div 2 \in Nat
  BY Half
<1>2. CASE b >= Backups
  <2>1. Backups + 1 = b \/ (Backups + 1 = b + 1 /\ Filled(Backups + 1, named))
    BY <1>2 DEF Filled
  <2>2. (Backups + 1) + 1 = Backups + 2
    OBVIOUS
  <2> QED
    BY <1>1, <2>1, <2>2 DEF More
<1>3. CASE b < Backups
  <2>1. (b + 1) \div 2 \in Nat /\ (b + 1) \div 2 <= Backups \div 2
    BY <1>3, Half, HalfGrows
  <2> QED
    BY <1>1, <1>3, <2>1 DEF More
<1> QED
  BY <1>2, <1>3

--------------------------------------------------------------------------------
(* Two calls that overlap: no file that can be lost has more recent lines   *)
(* than it has room for                                                     *)

New(f) == lines[f] \cap Recent

\* v, at work beside u, appends to log.txt, which is not full if u may yet rotate
\* it; or u has rotated what v has opened, which was not full then.
WritesOK(v, u) ==
    /\ At(v, "open") /\ Left(u) > 0 => LinesNow < Full
    /\ At(v, "write") =>
          \/ job[v].fd = file[0] /\ (Left(u) > 0 => LinesNow < Full)
          \/ /\ job[v].fd = file[1] /\ Cardinality(lines[file[1]]) < Full
             /\ Left(u) = 0 /\ ~(At(u, "write") /\ job[u].fd = file[1])

FitOK(u, v) ==
    /\ \A n \in Names : file[n] # None /\ (n > 0 \/ Left(u) > 0 \/ Left(v) > 0) =>
          Cardinality(New(file[n])) <= Full
    /\ WritesOK(u, v)
    /\ WritesOK(v, u)

\* A step that does not begin a call
Goes(w) ==
    \/ Size(w) \/ Oldest(w) \/ Drop(w) \/ Source(w) \/ Move(w)
    \/ Open(w) \/ Write(w) \/ Crash(w)

LEMMA LeftType ==
  ASSUME LogTypeOK, PlacesOK, NEW w \in Workers
  PROVE  /\ Left(w) \in 0..(Backups + 1) /\ Left(w) \in Nat
         /\ Left(w) > 0 => ~At(w, "off") /\ ~At(w, "open") /\ ~At(w, "write")
  BY LogConstants DEF LogConstants, Left, PlacesOK, At

LEMMA RaceGoesOn ==
  ASSUME LogTypeOK, SinceOK, [Next]_vars, Races > 0, Races' = Races
  PROVE  since' = since /\ (UNCHANGED vars \/ \E w \in Workers : Goes(w))
<1>1. since' = since
  BY RacesEnd
<1>2. ASSUME NEW w \in Workers, Call(w) PROVE FALSE
  <2>1. overlaps' = overlaps
    <3>1. overlaps' \in {overlaps, overlaps + 1}
      BY <1>2 DEF Call
    <3> QED
      BY <1>1, <3>1 DEF Races, LogTypeOK, SinceOK
  <2>2. ~\E v \in Workers : ~At(v, "off")
    BY <1>2, <2>1 DEF Call, LogTypeOK
  <2>3. overlaps # since.overlaps
    BY DEF Races, LogTypeOK, SinceOK
  <2>4. since' = Counts
    BY <1>2, <2>2, <2>3 DEF Call
  <2> QED
    BY <1>1, <2>3, <2>4 DEF Counts
<1> QED
  BY <1>1, <1>2 DEF Next, LogNext, Goes

\* What is counted, as long as no stock is taken
LEMMA Counted ==
  ASSUME LogTypeOK, SinceOK, since' = since
  PROVE  /\ Kills \in Nat /\ Recent \subseteq 1..written /\ since.written \in Nat
         /\ crashes' = crashes => Kills' = Kills
         /\ crashes' = crashes + 1 => Kills' = Kills + 1
         /\ written' = written => Recent' = Recent
         /\ \A l \in 1..written : l \in Recent' => l \in Recent
<1>1. Kills \in Nat /\ Recent \subseteq 1..written /\ since.written \in Nat
  BY SinceType
<1>2. crashes \in Nat /\ since.crashes \in 0..crashes
  BY LogConstants DEF LogConstants, LogTypeOK, SinceOK
<1>3. \A l \in 1..written : l \in Recent' => l \in Recent
  BY <1>1 DEF Recent
<1> QED
  BY <1>1, <1>2, <1>3 DEF Kills, Recent

LEMMA NewFew ==
  ASSUME LogTypeOK, NEW f \in Files
  PROVE  /\ IsFiniteSet(New(f)) /\ Cardinality(New(f)) \in Nat
         /\ Cardinality(New(f)) <= Cardinality(lines[f]) /\ Cardinality(lines[f]) \in Nat
<1>1. New(f) \in SUBSET lines[f]
  BY DEF New
<1> QED
  BY <1>1, LinesFinite, FS_Subset, FS_CardinalityType

\* A step of u that leaves everything but its own place as it is, and that does
\* not bring it nearer to its line
LEMMA FitOnPlace ==
  ASSUME LogTypeOK, PlacesOK, SinceOK, since' = since,
         NEW u \in Workers, NEW v \in Workers, u # v, FitOK(u, v), NEW j, Become(u, j),
         file' = file, lines' = lines, written' = written,
         Left(u)' \in Nat, Left(u)' > 0 => Left(u) > 0, j.pc \notin {"open", "write"}
  PROVE  FitOK(u, v)'
<1>1. job'[v] = job[v] /\ job'[u] = j
  BY DEF Become, LogTypeOK
<1>2. Left(v)' = Left(v) /\ LinesNow' = LinesNow /\ Recent' = Recent
  BY <1>1, Counted DEF Left, LinesNow
<1>3. Left(u) \in Nat /\ (Left(u) = 0 => Left(u)' = 0)
  BY LeftType
<1>4. WritesOK(u, v)'
  BY <1>1 DEF WritesOK, At
<1>5. WritesOK(v, u)'
  BY <1>1, <1>2, <1>3 DEF FitOK, WritesOK, At
<1>6. \A n \in Names : file'[n] # None /\ (n > 0 \/ Left(u)' > 0 \/ Left(v)' > 0) =>
        Cardinality(New(file[n])') <= Full
  BY <1>2 DEF FitOK, New
<1> QED
  BY <1>4, <1>5, <1>6 DEF FitOK, New

LEMMA FitStep ==
  ASSUME LogTypeOK, PlacesOK, SinceOK, LogTypeOK', PlacesOK', since' = since,
         NEW u \in Workers, NEW v \in Workers, u # v, FitOK(u, v), Goes(u)
  PROVE  FitOK(u, v)'
<1> USE LogConstants DEF LogConstants
<1>0. /\ Left(u) \in Nat /\ Left(u)' \in Nat /\ Left(v) \in Nat /\ Left(v)' \in Nat
      /\ Full \in Nat /\ Full >= 1 /\ 1 \in Names /\ Backups \in Names /\ Backups # 0
      /\ \A n \in Names : n \in Nat
      /\ \A n \in Names : file[n] # None => file[n] \in Files
  <2>1. Left(u) \in Nat /\ Left(v) \in Nat
    BY LeftType
  <2>2. Left(u)' \in Nat /\ Left(v)' \in Nat
    BY LogConstants DEF LogConstants, Left, PlacesOK, At
  <2>3. Full \in Nat /\ Full >= 1 /\ 1 \in Names /\ Backups \in Names /\ Backups # 0
    BY DEF Names
  <2> QED
    BY <2>1, <2>2, <2>3 DEF Names, LogTypeOK
<1>a. /\ \A n \in Names : file[n] # None /\ (n > 0 \/ Left(u) > 0 \/ Left(v) > 0) =>
            Cardinality(New(file[n])) <= Full
      /\ WritesOK(u, v) /\ WritesOK(v, u)
  BY DEF FitOK
<1>b. /\ written' = written => Recent' = Recent
      /\ \A l \in 1..written : l \in Recent' => l \in Recent
  BY Counted
<1>1. ASSUME NEW j, Become(u, j) PROVE job'[u] = j /\ job'[v] = job[v] /\ Left(v)' = Left(v)
  BY <1>1 DEF Become, LogTypeOK, Left
<1>2. CASE Size(u)
  <2>1. file' = file /\ lines' = lines /\ written' = written /\ Left(u) > 0
    BY <1>2 DEF Size, Step, Left, At
  <2>2. CASE file[0] # None /\ Cardinality(lines[file[0]]) >= Full
    BY <1>0, <1>2, <2>1, <2>2, FitOnPlace DEF Size, Step, Idle
  <2>3. CASE ~(file[0] # None /\ Cardinality(lines[file[0]]) >= Full)
    <3>1. job'[u].pc = "open" /\ job'[v] = job[v] /\ Left(v)' = Left(v) /\ Left(u)' = 0
      BY <1>1, <1>2, <2>3 DEF Size, Step, Idle, Left
    <3>2. LinesNow' = LinesNow /\ LinesNow < Full
      <4>1. CASE file[0] = None
        BY <1>0, <2>1, <4>1 DEF LinesNow
      <4>2. CASE file[0] # None
        <5>1. Cardinality(lines[file[0]]) \in Nat
          BY <1>0, <4>2, LinesFinite, BackupsType
        <5> QED
          BY <1>0, <2>1, <2>3, <4>2, <5>1 DEF LinesNow
      <4> QED
        BY <4>1, <4>2
    <3>3. WritesOK(u, v)'
      BY <3>1, <3>2 DEF WritesOK, At
    <3>4. WritesOK(v, u)'
      BY <1>0, <1>a, <2>1, <3>1 DEF WritesOK, At
    <3> QED
      BY <1>0, <1>a, <1>b, <2>1, <3>1, <3>3, <3>4 DEF FitOK, New
  <2> QED
    BY <2>2, <2>3
<1>3. CASE Oldest(u)
  <2>1. file' = file /\ lines' = lines /\ written' = written /\ Left(u) > 0
    BY <1>3 DEF Oldest, Step, Left, At
  <2>2. CASE file[Backups] = None
    BY <1>0, <1>3, <2>1, <2>2, FitOnPlace, ShiftGoesOn, BackupsType DEF Oldest, Step
  <2>3. CASE file[Backups] # None
    BY <1>0, <1>3, <2>1, <2>3, FitOnPlace DEF Oldest, Step, Idle
  <2> QED
    BY <2>2, <2>3
<1>4. CASE Source(u)
  <2>1. /\ file' = file /\ lines' = lines /\ written' = written /\ Left(u) > 0
        /\ job[u].index \in 1..(Backups - 1) /\ job[u] \in Jobs
    BY <1>4 DEF Source, Step, Left, At, PlacesOK, LogTypeOK
  <2>2. CASE file[job[u].index] = None
    <3>1. Shift(job[u].index - 1).pc \in {"source", "move"}
      BY DEF Shift
    <3> QED
      BY <1>0, <1>4, <2>1, <2>2, <3>1, FitOnPlace DEF Source, Step
  <2>3. CASE file[job[u].index] # None
    <3>1. [job[u] EXCEPT !.pc = "move"].pc = "move"
      BY <2>1 DEF Jobs
    <3> QED
      BY <1>0, <1>4, <2>1, <2>3, <3>1, FitOnPlace DEF Source, Step
  <2> QED
    BY <2>2, <2>3
<1>5. CASE Abort(u)
  <2>1. Left(u)' = 0
    BY <1>1, <1>5 DEF Abort, Left, Idle
  <2> QED
    BY <1>0, <1>5, <2>1, FitOnPlace DEF Abort, Idle
<1>6. CASE Crash(u)
  <2>1. Left(u)' = 0
    BY <1>1, <1>6 DEF Crash, Left, Idle
  <2> QED
    BY <1>0, <1>6, <2>1, FitOnPlace DEF Crash, Idle
\* A backup is dropped, or moved to the next name.
<1>7. ASSUME NEW j, Become(u, j), j.pc \in {"source", "move"}, Left(u) > 0,
             file'[0] = file[0], lines' = lines, written' = written,
             \A n \in Names \ {0} : file'[n] # None => \E m \in Names \ {0} : file'[n] = file[m]
      PROVE  FitOK(u, v)'
  <2>1. job'[u] = j /\ job'[v] = job[v] /\ Left(v)' = Left(v) /\ Recent' = Recent
    BY <1>1, <1>7, <1>b
  <2>2. LinesNow' = LinesNow
    BY <1>7 DEF LinesNow
  <2>3. WritesOK(u, v)'
    BY <1>7, <2>1 DEF WritesOK, At
  <2>4. WritesOK(v, u)'
    BY <1>0, <1>7, <1>a, <2>1, <2>2 DEF WritesOK, At
  <2>5. \A n \in Names : file'[n] # None => Cardinality(New(file'[n])) <= Full
    <3>1. \A n \in Names \ {0} : file'[n] # None => Cardinality(New(file'[n])) <= Full
      BY <1>a, <1>7
    <3>2. file'[0] # None => Cardinality(New(file'[0])) <= Full
      BY <1>a, <1>7, BackupsType
    <3> QED
      BY <3>1, <3>2
  <2>6. \A n \in Names : file'[n] # None => Cardinality(New(file[n])') <= Full
    BY <1>7, <2>1, <2>5 DEF New
  <2> QED
    BY <2>3, <2>4, <2>6 DEF FitOK
<1>8. CASE Drop(u) /\ file[Backups] # None
  <2>1. /\ Become(u, Shift(Backups - 1)) /\ file' = [file EXCEPT ![Backups] = None]
        /\ lines' = lines /\ written' = written /\ Left(u) > 0
        /\ Shift(Backups - 1).pc \in {"source", "move"}
    BY <1>8, ShiftGoesOn, BackupsType DEF Drop, Left, At
  <2>2. file'[Backups] = None /\ \A n \in Names \ {Backups} : file'[n] = file[n]
    BY <1>0, <2>1 DEF LogTypeOK
  <2>3. file'[0] = file[0] /\ \A n \in Names \ {0} : file'[n] # None => file'[n] = file[n]
    BY <1>0, <2>2, BackupsType
  <2> QED
    BY <1>7, <2>1, <2>3
<1>9. CASE Move(u) /\ file[job[u].index] # None
  <2> DEFINE i == job[u].index
  <2>1. i \in Names /\ i + 1 \in Names /\ i \in Nat /\ Left(u) > 0
    BY <1>9 DEF Move, At, PlacesOK, Names, Left
  <2>2. /\ file' = [file EXCEPT ![i + 1] = file[i], ![i] = None]
        /\ Become(u, IF i = 0 THEN [Idle EXCEPT !.pc = "open"] ELSE Shift(i - 1))
        /\ lines' = lines /\ written' = written
    BY <1>9 DEF Move
  <2>3. /\ file'[i] = None /\ file'[i + 1] = file[i]
        /\ \A n \in Names \ {i, i + 1} : file'[n] = file[n]
    BY <2>1, <2>2 DEF LogTypeOK
  <2>4. CASE i = 0
    <3>1. job'[u].pc = "open" /\ job'[v] = job[v] /\ Left(v)' = Left(v) /\ Left(u)' = 0
      BY <1>1, <2>2, <2>4 DEF Idle, Left
    <3>2. /\ file'[0] = None /\ file'[1] = file[0] /\ file[0] # None /\ LinesNow' = 0
          /\ Cardinality(lines'[file'[1]]) = LinesNow
      BY <1>9, <2>2, <2>3, <2>4 DEF LinesNow
    <3>3. WritesOK(u, v)'
      BY <1>0, <3>1, <3>2 DEF WritesOK, At
    <3>4. WritesOK(v, u)'
      BY <1>0, <1>a, <2>1, <2>2, <3>1, <3>2 DEF WritesOK, At
    <3>5. \A n \in Names : file'[n] # None => Cardinality(New(file'[n])) <= Full
      BY <1>0, <1>a, <2>1, <2>3, <2>4, <3>2, BackupsType
    <3>6. \A n \in Names : file'[n] # None => Cardinality(New(file[n])') <= Full
      BY <1>b, <2>2, <3>5 DEF New
    <3> QED
      BY <3>3, <3>4, <3>6 DEF FitOK
  <2>5. CASE i # 0
    <3>1. file'[0] = file[0]
      BY <2>1, <2>3, <2>5, BackupsType
    <3>2. \A n \in Names \ {0} : file'[n] # None => \E m \in Names \ {0} : file'[n] = file[m]
      <4>1. \A n \in Names \ {0} : file'[n] # None => file'[n] = file[IF n = i + 1 THEN i ELSE n]
        BY <2>1, <2>3
      <4> QED
        BY <2>1, <2>5, <4>1
    <3>3. Become(u, Shift(i - 1)) /\ Shift(i - 1).pc \in {"source", "move"}
      BY <2>2, <2>5 DEF Shift
    <3> QED
      BY <1>7, <2>1, <2>2, <3>1, <3>2, <3>3
  <2> QED
    BY <2>4, <2>5
<1>10. CASE Open(u)
  <2>1. PICK f \in Files : /\ IF file[0] = None THEN f \notin Created ELSE f = file[0]
                           /\ file' = [file EXCEPT ![0] = f]
                           /\ Become(u, [pc |-> "write", index |-> 0, fd |-> f])
    BY <1>10, Zenon DEF Open
  <2>2. /\ lines' = lines /\ written' = written /\ Recent' = Recent
        /\ file'[0] = f /\ \A n \in Names \ {0} : file'[n] = file[n]
        /\ At(u, "open") /\ Left(u) = 0
    BY <1>10, <1>b, <2>1, BackupsType DEF Open, LogTypeOK, At, Left
  <2>3. /\ job'[u] = [pc |-> "write", index |-> 0, fd |-> f]
        /\ job'[v] = job[v] /\ Left(v)' = Left(v) /\ Left(u)' = 0
    BY <1>1, <2>1 DEF Left
  <2>4. /\ f # None /\ (file[0] # None => f = file[0])
        /\ file[0] = None => lines[f] = {}
        /\ \A n \in Names \ {0} : file[n] # f
    <3>1. \A n \in Names \ {0} : file[n] # f
      <4>1. CASE file[0] = None
        BY <2>1, <4>1 DEF Created
      <4>2. CASE file[0] # None
        BY <2>1, <4>2, BackupsType DEF SinceOK
      <4> QED
        BY <4>1, <4>2
    <3> QED
      BY <2>1, <3>1 DEF Created, Files, None
  <2>5. LinesNow' = LinesNow
    BY <2>2, <2>4, FS_EmptySet DEF LinesNow
  <2>6. WritesOK(u, v)'
    BY <1>a, <2>2, <2>3, <2>5 DEF WritesOK, At
  <2>7. WritesOK(v, u)'
    <3>1. SUFFICES ASSUME At(v, "write"), Left(u)' = 0
                   PROVE  \/ job[v].fd = file'[0]
                          \/ /\ job[v].fd = file'[1] /\ Cardinality(lines[file'[1]]) < Full
                             /\ ~(At(u, "write") /\ job[u].fd = file[1])'
      BY <1>0, <2>2, <2>3 DEF WritesOK, At
    <3>2. file'[1] = file[1] /\ file[1] # f /\ job[v].fd \in Files /\ job[v].fd # None
      BY <1>0, <2>2, <2>4, <3>1 DEF PlacesOK, Files, None
    <3>3. ~(At(u, "write") /\ job[u].fd = file[1])'
      BY <2>3, <3>2
    <3> QED
      BY <1>a, <2>2, <2>4, <3>1, <3>2, <3>3 DEF WritesOK
  <2>8. \A n \in Names : file'[n] # None /\ (n > 0 \/ Left(u)' > 0 \/ Left(v)' > 0) =>
          Cardinality(New(file'[n])) <= Full
    <3>1. file[0] = None => Cardinality(New(f)) = 0
      BY <2>4, FS_EmptySet DEF New
    <3> QED
      BY <1>0, <1>a, <2>2, <2>3, <2>4, <3>1
  <2>9. \A n \in Names : New(file[n])' = New(file'[n])
    BY <2>2 DEF New
  <2> QED
    BY <2>6, <2>7, <2>8, <2>9 DEF FitOK
<1>11. CASE Write(u)
  <2> DEFINE f == job[u].fd
  <2>1. /\ f \in Files /\ f # None /\ file' = file /\ written' = written + 1 /\ Left(u) = 0
        /\ lines'[f] = lines[f] \cup {written + 1} /\ \A g \in Files \ {f} : lines'[g] = lines[g]
        /\ At(u, "write")
    BY <1>11 DEF Write, PlacesOK, At, LogTypeOK, Left, Files, None
  <2>2. job'[u].pc = "off" /\ job'[v] = job[v] /\ Left(v)' = Left(v) /\ Left(u)' = 0
    BY <1>1, <1>11 DEF Write, Idle, Left
  <2>3. WritesOK(u, v)'
    BY <2>2 DEF WritesOK, At
  <2>4. WritesOK(v, u)'
    <3>1. SUFFICES ASSUME At(v, "write")
                   PROVE  \/ job[v].fd = file[0]
                          \/ job[v].fd = file[1] /\ Cardinality(lines'[file[1]]) < Full
      BY <1>0, <2>1, <2>2 DEF WritesOK, At
    <3>2. job[v].fd \in Files
      BY <3>1 DEF PlacesOK
    <3> QED
      BY <1>a, <2>1, <3>1, <3>2 DEF WritesOK
  <2>5. ASSUME NEW n \in Names, file[n] # None, n > 0 \/ Left(u)' > 0 \/ Left(v)' > 0
        PROVE  Cardinality(New(file[n])') <= Full
    <3>1. file[n] \in Files
      BY <1>0, <2>5
    <3>2. CASE file[n] # f
      <4>1. lines'[file[n]] = lines[file[n]] /\ lines[file[n]] \subseteq 1..written
        BY <2>1, <3>1, <3>2 DEF LogTypeOK
      <4>2. New(file[n])' \in SUBSET New(file[n])
        BY <1>b, <2>1, <4>1 DEF New
      <4>3. Cardinality(New(file[n])') <= Cardinality(New(file[n]))
        BY <3>1, <4>2, NewFew, FS_Subset
      <4>4. Cardinality(New(file[n])) <= Full /\ Cardinality(New(file[n])) \in Nat
        BY <1>a, <2>1, <2>2, <2>5, <3>1, NewFew
      <4>5. Cardinality(New(file[n])') \in Nat
        BY <3>1, <4>2, NewFew, FS_Subset, FS_CardinalityType
      <4> QED
        BY <1>0, <4>3, <4>4, <4>5
    <3>3. CASE file[n] = f
      <4>1. Cardinality(lines[f]) < Full /\ Cardinality(lines[f]) \in Nat
        <5>1. CASE f = file[0] /\ (Left(v) > 0 => LinesNow < Full)
          <6>1. n = 0
            BY <2>5, <3>3, <5>1, BackupsType DEF SinceOK
          <6> QED
            BY <1>0, <2>1, <2>2, <2>5, <5>1, <6>1, LinesFinite DEF LinesNow
        <5>2. CASE f = file[1] /\ Cardinality(lines[file[1]]) < Full
          BY <2>1, <5>2, LinesFinite
        <5> QED
          BY <1>a, <2>1, <5>1, <5>2 DEF WritesOK
      <4>2. Cardinality(lines'[f]) <= Full
        <5>1. written + 1 \notin lines[f]
          BY <2>1 DEF LogTypeOK
        <5>2. Cardinality(lines[f] \cup {written + 1}) = Cardinality(lines[f]) + 1
          BY <2>1, <5>1, LinesFinite, FS_AddElement
        <5> QED
          BY <1>0, <2>1, <4>1, <5>2
      <4>3. lines'[f] \cap Recent' \in SUBSET lines'[f] /\ IsFiniteSet(lines'[f])
        <5>1. IsFiniteSet(lines[f])
          BY <2>1, LinesFinite
        <5> QED
          BY <2>1, <5>1, FS_AddElement
      <4>4. Cardinality(lines'[f] \cap Recent') <= Cardinality(lines'[f])
        BY <4>3, FS_Subset
      <4>5. Cardinality(lines'[f] \cap Recent') \in Nat /\ Cardinality(lines'[f]) \in Nat
        BY <4>3, FS_Subset, FS_CardinalityType
      <4>6. New(file[n])' = lines'[f] \cap Recent'
        BY <2>1, <3>3 DEF New
      <4> QED
        BY <1>0, <4>2, <4>4, <4>5, <4>6
    <3> QED
      BY <3>2, <3>3
  <2> QED
    BY <2>1, <2>3, <2>4, <2>5 DEF FitOK
<1> QED
  BY <1>2, <1>3, <1>4, <1>5, <1>6, <1>8, <1>9, <1>10, <1>11 DEF Goes, Drop, Move

\* The same of a helper alone
CalmOK ==
    Races = 0 =>
        /\ \A w \in Workers : job[w].pc \in {"open", "write"} => LinesNow < Full
        /\ \A n \in Names : file[n] # None => Cardinality(New(file[n])) <= Full

LEMMA CalmStep ==
  LogTypeOK /\ PlacesOK /\ OrderInv /\ CalmOK /\ LogTypeOK' /\ [Next]_vars => CalmOK'
<1> SUFFICES ASSUME LogTypeOK, PlacesOK, OrderInv, CalmOK, LogTypeOK', [Next]_vars, Races' = 0
             PROVE  /\ \A w \in Workers : job'[w].pc \in {"open", "write"} => LinesNow' < Full
                    /\ \A n \in Names : file'[n] # None => Cardinality(New(file[n])') <= Full
  BY DEF CalmOK
<1> DEFINE Goal == /\ \A w \in Workers : job'[w].pc \in {"open", "write"} => LinesNow' < Full
                   /\ \A n \in Names : file'[n] # None => Cardinality(New(file[n])') <= Full
<1> USE LogConstants DEF LogConstants
<1>0. CASE TakesStock
  <2>1. /\ Recent' = {} /\ \A w \in Workers : job'[w].pc \in {"off", "size"}
    BY <1>0, StockTaken
  <2>2. \A n : New(file[n])' = {}
    BY <2>1 DEF New
  <2> QED
    BY <2>1, <2>2, FS_EmptySet
<1> SUFFICES ASSUME ~TakesStock PROVE Goal
  BY <1>0
<1>a. Races = 0 /\ AloneOK /\ SinceOK /\ since' = since
  BY RacesEnd, SinceType DEF OrderInv
<1>b. /\ \A w \in Workers : job[w].pc \in {"open", "write"} => LinesNow < Full
      /\ \A n \in Names : file[n] # None =>
            file[n] \in Files /\ Cardinality(New(file[n])) <= Full
      /\ written' = written => Recent' = Recent
      /\ \A l \in 1..written : l \in Recent' => l \in Recent
  BY <1>a, Counted DEF CalmOK, LogTypeOK
\* Nothing is written; a helper comes to its line only if log.txt is not full.
<1>1. ASSUME NEW w \in Active, NEW j, Become(w, j), lines' = lines, written' = written,
             \A n \in Names : file'[n] # None =>
                 lines[file'[n]] = {} \/ \E m \in Names : file[m] # None /\ file'[n] = file[m],
             j.pc \in {"open", "write"} => LinesNow' < Full
      PROVE  Goal
  <2>1. job'[w] = j /\ \A v \in Workers : v # w => job'[v].pc = "off"
    BY <1>a, <1>1, OnlyOne
  <2>2. \A n \in Names : file'[n] # None => Cardinality(New(file'[n])) <= Full
    <3>1. ASSUME NEW n \in Names, lines[file'[n]] = {} PROVE Cardinality(New(file'[n])) = 0
      BY <3>1, FS_EmptySet DEF New
    <3> QED
      BY <1>b, <1>1, <3>1
  <2>3. \A n : New(file[n])' = New(file'[n])
    BY <1>b, <1>1 DEF New
  <2> QED
    BY <1>1, <2>1, <2>2, <2>3
<1>2. ASSUME NEW w \in Workers, Call(w) PROVE Goal
  <2>1. /\ \A v \in Workers : At(v, "off")
        /\ file' = file /\ lines' = lines /\ written' = written
        /\ Become(w, [Idle EXCEPT !.pc = "size"])
    BY <1>a, <1>2 DEF Call, Races, OrderInv, SinceOK, LogTypeOK
  <2>2. \A v \in Workers : job'[v].pc \in {"off", "size"}
    BY <2>1 DEF Become, At, Idle, LogTypeOK
  <2>3. \A n : New(file[n])' = New(file[n])
    BY <1>b, <2>1 DEF New
  <2> QED
    BY <1>b, <2>1, <2>2, <2>3
<1>3. ASSUME NEW w \in Workers, Size(w) PROVE Goal
  <2>1. w \in Active /\ file' = file /\ lines' = lines /\ written' = written
    BY <1>3 DEF Size, Step, Active, At
  <2>2. CASE file[0] # None /\ Cardinality(lines[file[0]]) >= Full
    BY <1>1, <1>3, <2>1, <2>2 DEF Size, Step, Idle
  <2>3. CASE ~(file[0] # None /\ Cardinality(lines[file[0]]) >= Full)
    <3>1. LinesNow' < Full
      <4>1. CASE file[0] = None
        BY <2>1, <4>1 DEF LinesNow
      <4>2. CASE file[0] # None
        <5>1. Cardinality(lines[file[0]]) \in Nat
          BY <1>b, <4>2, LinesFinite, BackupsType
        <5> QED
          BY <2>1, <2>3, <4>2, <5>1 DEF LinesNow
      <4> QED
        BY <4>1, <4>2
    <3> QED
      BY <1>1, <1>3, <2>1, <2>3, <3>1 DEF Size, Step
  <2> QED
    BY <2>2, <2>3
<1>4. ASSUME NEW w \in Workers, Oldest(w) \/ Source(w) PROVE Goal
  <2>1. w \in Active /\ file' = file /\ lines' = lines /\ written' = written
    BY <1>4 DEF Oldest, Source, Step, Active, At
  <2>2. \A i : Shift(i).pc \in {"source", "move"}
    BY DEF Shift
  <2>3. /\ [job[w] EXCEPT !.pc = "move"].pc = "move"
        /\ [Idle EXCEPT !.pc = "drop"].pc = "drop"
    BY <1>4 DEF LogTypeOK, Jobs, Idle
  <2>4. PICK j : Become(w, j) /\ j.pc \in {"source", "move", "drop"}
    <3>1. CASE Oldest(w)
      BY <2>2, <2>3, <3>1, BackupsType DEF Oldest, Step
    <3>2. CASE Source(w)
      BY <2>2, <2>3, <3>2 DEF Source, Step
    <3> QED
      BY <1>4, <3>1, <3>2
  <2> QED
    BY <1>1, <2>1, <2>4
<1>5. ASSUME NEW w \in Workers, Abort(w) \/ Crash(w), w \in Active PROVE Goal
  BY <1>1, <1>5 DEF Abort, Crash, Idle
<1>6. ASSUME NEW w \in Workers, Drop(w), file[Backups] # None PROVE Goal
  <2>1. /\ w \in Active /\ Become(w, Shift(Backups - 1)) /\ file' = [file EXCEPT ![Backups] = None]
        /\ lines' = lines /\ written' = written
        /\ Shift(Backups - 1).pc \in {"source", "move"}
    BY <1>6, ShiftGoesOn, BackupsType DEF Drop, Active, At
  <2>2. \A n \in Names : file'[n] # None => file'[n] = file[n]
    BY <2>1, BackupsType DEF LogTypeOK
  <2> QED
    BY <1>1, <2>1, <2>2
<1>7. ASSUME NEW w \in Workers, Move(w), file[job[w].index] # None PROVE Goal
  <2> DEFINE i == job[w].index
             j == IF i = 0 THEN [Idle EXCEPT !.pc = "open"] ELSE Shift(i - 1)
  <2>1. w \in Active /\ i \in Names /\ i + 1 \in Names /\ i \in Nat
    BY <1>7 DEF Move, At, Active, PlacesOK, Names
  <2>2. /\ file' = [file EXCEPT ![i + 1] = file[i], ![i] = None]
        /\ Become(w, j) /\ lines' = lines /\ written' = written
    BY <1>7 DEF Move
  <2>3. /\ file'[i] = None /\ file'[i + 1] = file[i]
        /\ \A n \in Names \ {i, i + 1} : file'[n] = file[n]
    BY <2>1, <2>2 DEF LogTypeOK
  <2>4. j.pc \in {"open", "write"} => LinesNow' < Full
    BY <2>3 DEF Shift, LinesNow
  <2>5. \A n \in Names : file'[n] # None => \E m \in Names : file[m] # None /\ file'[n] = file[m]
    BY <1>7, <2>1, <2>3
  <2> HIDE DEF i, j
  <2> QED
    BY <1>1, <2>1, <2>2, <2>4, <2>5
<1>8. ASSUME NEW w \in Workers, Open(w) PROVE Goal
  <2>1. PICK f \in Files : /\ IF file[0] = None THEN f \notin Created ELSE f = file[0]
                           /\ file' = [file EXCEPT ![0] = f]
                           /\ Become(w, [pc |-> "write", index |-> 0, fd |-> f])
    BY <1>8, Zenon DEF Open
  <2>2. /\ w \in Active /\ lines' = lines /\ written' = written /\ LinesNow < Full
        /\ file'[0] = f /\ \A n \in Names \ {0} : file'[n] = file[n]
    BY <1>8, <1>b, <2>1, BackupsType DEF Open, LogTypeOK, At, Active
  <2>3. f # None /\ (file[0] = None => lines[f] = {}) /\ (file[0] # None => f = file[0])
    BY <2>1 DEF Created, Files, None
  <2>4. LinesNow' = LinesNow
    BY <2>2, <2>3, FS_EmptySet DEF LinesNow
  <2>5. \A n \in Names : file'[n] # None =>
          lines[file'[n]] = {} \/ \E m \in Names : file[m] # None /\ file'[n] = file[m]
    BY <2>2, <2>3
  <2> QED
    BY <1>1, <2>1, <2>2, <2>4, <2>5
<1>9. ASSUME NEW w \in Workers, Write(w) PROVE Goal
  <2> DEFINE f == file[0]
  <2>1. /\ f \in Files /\ f # None /\ file' = file /\ written' = written + 1 /\ written \in Nat
        /\ lines'[f] = lines[f] \cup {written + 1} /\ \A g \in Files \ {f} : lines'[g] = lines[g]
        /\ LinesNow < Full /\ w \in Active /\ Become(w, Idle)
    BY <1>9, <1>a, <1>b DEF Write, PlacesOK, AloneOK, At, Active, LogTypeOK, Files, None
  <2>2. \A v \in Workers : job'[v].pc = "off"
    BY <1>a, <2>1, OnlyOne DEF Idle
  <2>3. ASSUME NEW n \in Names, file[n] # None PROVE Cardinality(New(file[n])') <= Full
    <3>1. file[n] \in Files /\ Cardinality(New(file[n])) <= Full
      BY <1>b, <2>3
    <3>2. CASE file[n] # f
      <4>1. lines'[file[n]] = lines[file[n]] /\ lines[file[n]] \subseteq 1..written
        BY <2>1, <3>1, <3>2 DEF LogTypeOK
      <4>2. New(file[n])' \in SUBSET New(file[n])
        BY <1>b, <2>1, <4>1 DEF New
      <4>3. /\ Cardinality(New(file[n])') <= Cardinality(New(file[n]))
            /\ Cardinality(New(file[n])') \in Nat /\ Cardinality(New(file[n])) \in Nat
        BY <3>1, <4>2, NewFew, FS_Subset, FS_CardinalityType
      <4> QED
        BY <3>1, <4>3
    <3>3. CASE file[n] = f
      <4>1. Cardinality(lines[f]) < Full /\ Cardinality(lines[f]) \in Nat /\ IsFiniteSet(lines[f])
        BY <2>1, LinesFinite DEF LinesNow
      <4>2. Cardinality(lines'[f]) <= Full /\ IsFiniteSet(lines'[f])
        <5>1. written + 1 \notin lines[f]
          BY <2>1 DEF LogTypeOK
        <5>2. /\ Cardinality(lines[f] \cup {written + 1}) = Cardinality(lines[f]) + 1
              /\ IsFiniteSet(lines[f] \cup {written + 1})
          BY <4>1, <5>1, FS_AddElement
        <5> QED
          BY <2>1, <4>1, <5>2
      <4>3. /\ Cardinality(lines'[f] \cap Recent') <= Cardinality(lines'[f])
            /\ Cardinality(lines'[f] \cap Recent') \in Nat /\ Cardinality(lines'[f]) \in Nat
        BY <4>2, FS_Subset, FS_CardinalityType
      <4>4. New(file[n])' = lines'[f] \cap Recent'
        BY <2>1, <3>3 DEF New
      <4> QED
        BY <4>2, <4>3, <4>4
    <3> QED
      BY <3>2, <3>3
  <2> QED
    BY <2>1, <2>2, <2>3
<1>10. CASE UNCHANGED vars
  <2>1. job' = job /\ file' = file /\ LinesNow' = LinesNow /\ \A n : New(file[n])' = New(file[n])
    BY <1>10, <1>b DEF vars, LinesNow, New
  <2> QED
    BY <1>b, <2>1
<1>11. ASSUME NEW w \in Workers, Drop(w) \/ Move(w) PROVE Goal
  <2>1. w \in Active
    BY <1>11 DEF Drop, Move, Active, At
  <2> QED
    BY <1>5, <1>6, <1>7, <1>11, <2>1 DEF Drop, Move
<1>12. ASSUME NEW w \in Workers, Crash(w) PROVE Goal
  BY <1>5, <1>12 DEF Crash, Active
<1> QED
  BY <1>2, <1>3, <1>4, <1>8, <1>9, <1>10, <1>11, <1>12 DEF Next, LogNext

--------------------------------------------------------------------------------
(* Two calls that overlap: how much is lost *)

\* The lost lines that the backups would have room for
Young == {l \in Lost \cap Recent : l + Full * Backups > written + Full * Kills}

\* Before either rotation has begun, the last backup holds nothing young.
NotBegun(u, v) ==
    /\ \A w \in {u, v} : job[w].pc \in {"oldest", "drop"} => LinesNow >= Full
    /\ file[Backups] # None => \A k \in New(file[Backups]) :
          k + LinesNow + Full * (Backups - 1) <= written + Full * Kills

\* v is ahead of u: what is lost, and what may still be, is one backup and one for
\* every two names.
RaceOK(u, v) ==
    /\ Left(v) <= Left(u)
    /\ Left(v) \in 1..Backups => file[Left(v)] = None
    /\ Cardinality(Young) + Full * More(Left(u), Left(v), file) <= Full * ((Backups \div 2) + 1)
    /\ Left(v) = Backups + 1 => NotBegun(u, v)

RaceInv ==
    Races = 1 => \E u, v \in Workers :
        u # v /\ Active \subseteq {u, v} /\ FitOK(u, v) /\ RaceOK(u, v)

LEMMA YoungFinite ==
  ASSUME LogTypeOK, SinceOK
  PROVE  IsFiniteSet(Young) /\ Cardinality(Young) \in Nat
<1>1. Young \in SUBSET (1..written) /\ IsFiniteSet(1..written)
  <2>1. written \in Nat
    BY DEF LogTypeOK
  <2>2. Recent \subseteq 1..written
    BY SinceType
  <2>3. IsFiniteSet(1..written)
    BY <2>1, FS_Interval
  <2>4. Young \subseteq Recent
    BY DEF Young
  <2> QED
    BY <2>2, <2>3, <2>4
<1> QED
  BY <1>1, FS_Subset, FS_CardinalityType

\* Lines are lost that are old, if any.
LEMMA YoungKept ==
  ASSUME LogTypeOK, SinceOK, since' = since,
         written' \in {written, written + 1}, crashes' \in {crashes, crashes + 1},
         \A l \in Lost' \cap Recent' : l \in Recent /\
            (l \in Lost \/ l + Full * Backups <= written + Full * Kills)
  PROVE  Cardinality(Young)' \in Nat /\ Cardinality(Young)' <= Cardinality(Young)
<1>1. /\ written \in Nat /\ Kills \in Nat /\ Kills' \in {Kills, Kills + 1} /\ Recent \subseteq 1..written
      /\ Full * Kills \in Nat /\ Full * (Kills + 1) = Full * Kills + Full
      /\ Full * Backups \in Nat /\ Full \in Nat
  BY Counted, FullTimes, LogConstants DEF LogTypeOK, LogConstants
<1>2. ASSUME NEW l \in Young' PROVE l \in Young
  <2>a. l \in Lost' \cap Recent' /\ l + Full * Backups > written' + Full * Kills'
    BY DEF Young
  <2>b. l \in Recent
    BY <2>a
  <2>1. /\ l \in Lost' \cap Recent' /\ l \in Recent /\ l \in Nat
        /\ l + Full * Backups > written' + Full * Kills'
    <3>1. \A k \in 1..written : k \in Nat
      OBVIOUS
    <3> QED
      BY <1>1, <2>a, <2>b, <3>1, Zenon
  <2>2. Full * Kills' \in Nat /\ Full * Kills' >= Full * Kills /\ written' \in Nat /\ written' >= written
    <3>1. CASE Kills' = Kills
      BY <1>1, <3>1
    <3>2. CASE Kills' = Kills + 1
      BY <1>1, <3>2
    <3> QED
      BY <1>1, <3>1, <3>2
  <2>3. l + Full * Backups > written + Full * Kills
    BY <1>1, <2>1, <2>2
  <2>4. l \in Lost
    BY <1>1, <2>1, <2>3
  <2> QED
    BY <2>1, <2>3, <2>4 DEF Young
<1>3. Young' \in SUBSET Young
  BY <1>2
<1> QED
  BY <1>3, YoungFinite, FS_Subset, FS_CardinalityType

\* One file is lost.
LEMMA YoungGrows ==
  ASSUME LogTypeOK, SinceOK, since' = since, written' = written, crashes' = crashes,
         NEW f \in Files, Cardinality(New(f)) <= Full,
         \A l \in Lost' : l \in Lost \/ l \in lines[f]
  PROVE  Cardinality(Young)' \in Nat /\ Cardinality(Young)' <= Cardinality(Young) + Full
<1>1. Recent' = Recent /\ Kills' = Kills /\ Full \in Nat
  BY Counted, LogConstants DEF LogConstants
<1>2. Young' \in SUBSET (Young \cup New(f))
  BY <1>1 DEF Young, New
<1>3. /\ IsFiniteSet(Young) /\ IsFiniteSet(New(f))
      /\ Cardinality(Young) \in Nat /\ Cardinality(New(f)) \in Nat
  BY YoungFinite, NewFew
<1>4. /\ IsFiniteSet(Young \cup New(f))
      /\ Cardinality(Young \cup New(f)) <= Cardinality(Young) + Cardinality(New(f))
      /\ Cardinality(Young \cup New(f)) \in Nat
  <2>1. IsFiniteSet(Young \cap New(f))
    BY <1>3, FS_Intersection
  <2>2. Cardinality(Young \cap New(f)) \in Nat
    BY <2>1, FS_CardinalityType
  <2>3. /\ IsFiniteSet(Young \cup New(f))
        /\ Cardinality(Young \cup New(f)) =
              Cardinality(Young) + Cardinality(New(f)) - Cardinality(Young \cap New(f))
    BY <1>3, FS_Union
  <2>4. Cardinality(Young \cup New(f)) \in Nat
    BY <2>3, FS_CardinalityType
  <2> QED
    BY <1>3, <2>2, <2>3, <2>4
<1>5. Cardinality(Young') <= Cardinality(Young \cup New(f)) /\ Cardinality(Young') \in Nat
  BY <1>2, <1>4, FS_Subset, FS_CardinalityType
<1> QED
  BY <1>1, <1>3, <1>4, <1>5

\* The file that a rotation loses when it goes on by one name: none, if the next
\* name is free, or there is nothing to move.
LEMMA GoesOnLoses ==
  ASSUME LogTypeOK, lines' = lines, written' = written,
         NEW a \in 1..(Backups + 1), GoesOn(a, file, file'), NEW l \in Lost', l \notin Lost
  PROVE  /\ Filled(a, file) /\ file[a - 1] # None
         /\ \E n \in Names \ {0} : /\ file[n] # None /\ l \in lines[file[n]]
                                   /\ a = Backups + 1 => n = Backups
<1> USE LogConstants DEF LogConstants
<1>1. PICK n \in Names : file[n] # None /\ l \in lines[file[n]]
  BY DEF Lost, Kept
<1>2. \A m \in Names : file'[m] # file[n]
  BY <1>1 DEF Lost, Kept
<1>3. n \in {a - 1, a} /\ a \in Nat /\ n \in Nat /\ Backups \in Nat /\ Backups >= 1
  BY <1>2 DEF GoesOn, Names
<1>4. CASE n = a
  <2>1. a \in Names /\ file[a - 1] # None /\ n # 0
    BY <1>1, <1>2, <1>4 DEF GoesOn
  <2>2. a # Backups + 1
    BY <1>3, <2>1 DEF Names
  <2> QED
    BY <1>1, <1>4, <2>1, <2>2 DEF Filled
<1>5. CASE n = a - 1
  <2>1. a = Backups + 1
    <3> SUFFICES ASSUME a # Backups + 1 PROVE FALSE
      OBVIOUS
    <3>1. a \in Names
      BY DEF Names
    <3>2. file'[a] = file[a - 1]
      BY <1>1, <1>5, <3>1 DEF GoesOn
    <3> QED
      BY <1>2, <1>5, <3>1, <3>2
  <2> QED
    BY <1>1, <1>3, <1>5, <2>1 DEF Filled
<1> QED
  BY <1>3, <1>4, <1>5

LEMMA Charge ==
  ASSUME NEW y \in Nat, NEW z \in Nat, NEW m \in Nat, NEW n \in Nat, NEW c \in Nat,
         y + Full * m <= c,
         (z <= y /\ n <= m) \/ (z <= y + Full /\ n + 1 <= m)
  PROVE  z + Full * n <= c
<1> USE LogConstants DEF LogConstants
<1>1. \A p, q \in Nat : p <= q => Full * p <= Full * q
  <2> TAKE p, q \in Nat
  <2> HAVE p <= q
  <2>a. q - p \in Nat /\ q = p + (q - p)
    OBVIOUS
  <2>1. PICK d \in Nat : q = p + d
    BY <2>a, Zenon
  <2>2. Full * q = Full * p + Full * d /\ Full * d \in Nat /\ Full * p \in Nat
    BY <2>1
  <2> QED
    BY <2>2
<1>2. /\ Full * n \in Nat /\ Full * m \in Nat /\ Full \in Nat
      /\ Full * (n + 1) = Full * n + Full
  BY FullTimes
<1>3. CASE z <= y /\ n <= m
  BY <1>1, <1>2, <1>3
<1>4. CASE z <= y + Full /\ n + 1 <= m
  <2>1. Full * (n + 1) <= Full * m
    BY <1>1, <1>4
  <2> QED
    BY <1>2, <1>4, <2>1
<1> QED
  BY <1>3, <1>4

\* Neither is ahead of the other: either may be called so.
LEMMA RaceSides ==
  ASSUME LogTypeOK, PlacesOK, NEW u \in Workers, NEW v \in Workers,
         RaceOK(u, v), Left(u) <= Left(v)
  PROVE  RaceOK(v, u)
<1>1. Left(u) = Left(v)
  BY LeftType DEF RaceOK
<1>2. NotBegun(u, v) => NotBegun(v, u)
  BY DEF NotBegun
<1> QED
  BY <1>1, <1>2 DEF RaceOK

\* A step of w is one of three: it stays at its name, its rotation goes on by one
\* name, or its rotation is over (or has been before).
Stays(w) ==
    /\ UNCHANGED <<file, lines, written, crashes>>
    /\ Left(w)' = Left(w)
    /\ job'[w].pc \in {"oldest", "drop"} =>
          job[w].pc \in {"oldest", "drop"} \/ LinesNow >= Full

GoesOnByOne(w) ==
    /\ UNCHANGED <<lines, written, crashes>>
    /\ Left(w) > 0 /\ Left(w)' = Left(w) - 1
    /\ GoesOn(Left(w), file, file')
    /\ Left(w) = Backups + 1 => job[w].pc \in {"oldest", "drop"}

Leaves(w) ==
    /\ Left(w)' = 0
    /\ \A n \in 1..Backups : file'[n] = file[n]
    /\ written' \in {written, written + 1} /\ crashes' \in {crashes, crashes + 1}
    /\ \A l \in Lost' : l \in Lost

LEMMA StepKinds ==
  ASSUME LogTypeOK, PlacesOK, SinceOK, NEW w \in Workers, NEW x \in Workers, WritesOK(w, x), Goes(w)
  PROVE  Stays(w) \/ GoesOnByOne(w) \/ Leaves(w)
<1> USE LogConstants DEF LogConstants
<1>0. /\ Backups \in Names /\ 0 \in Names /\ Backups # 0 /\ Backups \in Nat
      /\ 1..Backups \subseteq Names /\ (Backups + 1) \notin Names
      /\ \A n \in Names : n \in Nat
  BY DEF Names
<1>1. ASSUME NEW j, Become(w, j) PROVE job'[w] = j
  BY <1>1 DEF Become, LogTypeOK
\* Nothing but the place of w changes.
<1>2. ASSUME NEW j, Become(w, j), file' = file, lines' = lines, written' = written,
             crashes' \in {crashes, crashes + 1}, j.pc \in {"off", "open"}
      PROVE  Leaves(w)
  <2>1. Left(w)' = 0
    BY <1>1, <1>2 DEF Left
  <2>2. Lost' = Lost
    BY <1>2 DEF Lost, Kept
  <2> QED
    BY <1>2, <2>1, <2>2 DEF Leaves
<1>3. ASSUME NEW i \in 0..(Backups - 1), Become(w, Shift(i)) PROVE Left(w)' = i + 1
  <2>1. job'[w] = Shift(i) /\ Shift(i).pc \in {"source", "move"} /\ Shift(i).index = i
    BY <1>1, <1>3 DEF Shift
  <2> QED
    BY <2>1 DEF Left
<1>4. CASE Size(w)
  <2>1. CASE file[0] # None /\ Cardinality(lines[file[0]]) >= Full
    <3>1. /\ file' = file /\ lines' = lines /\ written' = written /\ crashes' = crashes
          /\ job'[w].pc = "oldest" /\ job[w].pc = "size"
      BY <1>1, <1>4, <2>1 DEF Size, Step, At, Idle
    <3> QED
      BY <2>1, <3>1 DEF Stays, Left, LinesNow
  <2>2. CASE ~(file[0] # None /\ Cardinality(lines[file[0]]) >= Full)
    BY <1>2, <1>4, <2>2 DEF Size, Step, Idle
  <2> QED
    BY <2>1, <2>2
<1>5. CASE Oldest(w)
  <2>1. CASE file[Backups] = None
    <3>1. /\ file' = file /\ lines' = lines /\ written' = written /\ crashes' = crashes
          /\ job[w].pc = "oldest" /\ Become(w, Shift(Backups - 1))
      BY <1>5, <2>1 DEF Oldest, Step, At
    <3>2. Left(w)' = Backups
      BY <1>3, <3>1, BackupsType
    <3>3. GoesOn(Backups + 1, file, file')
      BY <1>0, <2>1, <3>1 DEF GoesOn
    <3> QED
      BY <1>0, <3>1, <3>2, <3>3 DEF GoesOnByOne, Left
  <2>2. CASE file[Backups] # None
    <3>1. /\ file' = file /\ lines' = lines /\ written' = written /\ crashes' = crashes
          /\ job'[w].pc = "drop" /\ job[w].pc = "oldest"
      BY <1>1, <1>5, <2>2 DEF Oldest, Step, At, Idle
    <3> QED
      BY <3>1 DEF Stays, Left
  <2> QED
    BY <2>1, <2>2
<1>6. CASE Abort(w)
  BY <1>2, <1>6 DEF Abort, Idle
<1>7. CASE Crash(w)
  BY <1>2, <1>7 DEF Crash, Idle
<1>8. CASE Drop(w) /\ file[Backups] # None
  <2>1. /\ file' = [file EXCEPT ![Backups] = None]
        /\ lines' = lines /\ written' = written /\ crashes' = crashes
        /\ job[w].pc = "drop" /\ Become(w, Shift(Backups - 1))
    BY <1>8 DEF Drop, At
  <2>2. Left(w)' = Backups
    BY <1>3, <2>1, BackupsType
  <2>3. file'[Backups] = None /\ \A n \in Names \ {Backups} : file'[n] = file[n]
    BY <1>0, <2>1 DEF LogTypeOK
  <2>4. GoesOn(Backups + 1, file, file')
    BY <1>0, <2>3 DEF GoesOn
  <2> QED
    BY <1>0, <2>1, <2>2, <2>4 DEF GoesOnByOne, Left
<1>9. CASE Source(w)
  <2> DEFINE i == job[w].index
  <2>1. /\ file' = file /\ lines' = lines /\ written' = written /\ crashes' = crashes
        /\ job[w].pc = "source" /\ i \in 1..(Backups - 1) /\ job[w] \in Jobs
        /\ Left(w) = i + 1 /\ i \in Nat
    BY <1>9 DEF Source, Step, At, PlacesOK, Left, LogTypeOK
  <2>2. CASE file[i] = None
    <3>1. Become(w, Shift(i - 1)) /\ i - 1 \in 0..(Backups - 1)
      BY <1>9, <2>1, <2>2 DEF Source, Step
    <3>2. Left(w)' = i
      BY <1>3, <2>1, <3>1
    <3>3. GoesOn(i + 1, file, file')
      BY <2>1, <2>2 DEF GoesOn
    <3> QED
      BY <2>1, <3>2, <3>3 DEF GoesOnByOne
  <2>3. CASE file[i] # None
    <3>1. job'[w] = [job[w] EXCEPT !.pc = "move"]
      BY <1>1, <1>9, <2>3 DEF Source, Step
    <3>2. job'[w].pc = "move" /\ job'[w].index = i
      BY <2>1, <3>1 DEF Jobs
    <3>3. Left(w)' = Left(w)
      BY <2>1, <3>2 DEF Left
    <3> QED
      BY <2>1, <3>2, <3>3 DEF Stays
  <2> QED
    BY <2>2, <2>3
<1>10. CASE Move(w) /\ file[job[w].index] # None
  <2> DEFINE i == job[w].index
  <2>1. i \in Names /\ i + 1 \in Names /\ i \in Nat /\ Left(w) = i + 1 /\ job[w].pc = "move" /\ i < Backups
    BY <1>10 DEF Move, At, PlacesOK, Names, Left
  <2>2. /\ file' = [file EXCEPT ![i + 1] = file[i], ![i] = None]
        /\ Become(w, IF i = 0 THEN [Idle EXCEPT !.pc = "open"] ELSE Shift(i - 1))
        /\ lines' = lines /\ written' = written /\ crashes' = crashes
    BY <1>10 DEF Move
  <2>3. /\ file'[i] = None /\ file'[i + 1] = file[i]
        /\ \A n \in Names \ {i, i + 1} : file'[n] = file[n]
    BY <2>1, <2>2 DEF LogTypeOK
  <2>4. GoesOn(i + 1, file, file')
    BY <1>10, <2>1, <2>3 DEF GoesOn
  <2>5. Left(w)' = i
    <3>1. CASE i = 0
      BY <1>1, <2>2, <3>1 DEF Left, Idle
    <3>2. CASE i # 0
      <4>1. Become(w, Shift(i - 1)) /\ i - 1 \in 0..(Backups - 1)
        BY <1>0, <2>1, <2>2, <3>2
      <4>2. Left(w)' = (i - 1) + 1
        BY <1>3, <4>1
      <4> QED
        BY <2>1, <4>2
    <3> QED
      BY <3>1, <3>2
  <2> QED
    BY <1>0, <2>1, <2>2, <2>4, <2>5 DEF GoesOnByOne
<1>11. CASE Open(w)
  <2>1. PICK f \in Files : /\ IF file[0] = None THEN f \notin Created ELSE f = file[0]
                           /\ file' = [file EXCEPT ![0] = f]
                           /\ Become(w, [pc |-> "write", index |-> 0, fd |-> f])
    BY <1>11, Zenon DEF Open
  <2>2. /\ lines' = lines /\ written' = written /\ crashes' = crashes
        /\ file'[0] = f /\ \A n \in Names \ {0} : file'[n] = file[n]
    BY <1>11, <2>1, BackupsType DEF Open, LogTypeOK
  <2>3. Left(w)' = 0
    BY <1>1, <2>1 DEF Left
  <2>4. \A k \in Kept : k \in Kept'
    <3> TAKE k \in Kept
    <3>1. PICK n \in Names : file[n] # None /\ k \in lines[file[n]]
      BY DEF Kept
    <3>2. file'[n] = file[n]
      BY <2>1, <2>2, <3>1
    <3> QED
      BY <2>2, <3>1, <3>2 DEF Kept
  <2>5. \A l \in Lost' : l \in Lost
    BY <2>2, <2>4, LostShrinks
  <2> QED
    BY <1>0, <2>2, <2>3, <2>5 DEF Leaves
<1>12. CASE Write(w)
  <2> DEFINE f == job[w].fd
  <2>1. /\ f \in Files /\ f # None /\ file' = file /\ written' = written + 1 /\ crashes' = crashes
        /\ lines'[f] = lines[f] \cup {written + 1} /\ \A g \in Files \ {f} : lines'[g] = lines[g]
        /\ Become(w, Idle) /\ At(w, "write")
    BY <1>12 DEF Write, PlacesOK, At, LogTypeOK, Files, None
  <2>2. PICK n \in Names : f = file[n]
    <3>1. 0 \in Names /\ 1 \in Names
      BY DEF Names
    <3> QED
      BY <2>1, <3>1 DEF WritesOK
  <2>3. written + 1 \in Kept'
    BY <2>1, <2>2 DEF Kept
  <2>4. \A k \in Kept : k \in Kept'
    <3> TAKE k \in Kept
    <3>1. PICK m \in Names : file[m] # None /\ k \in lines[file[m]]
      BY DEF Kept
    <3>2. file[m] \in Files
      BY <3>1 DEF LogTypeOK
    <3>3. k \in lines'[file[m]]
      BY <2>1, <3>1, <3>2
    <3> QED
      BY <2>1, <3>1, <3>3 DEF Kept
  <2>5. \A l \in Lost' : l \in Lost
    <3>1. \A l \in 1..(written + 1) : l = written + 1 \/ l \in 1..written
      BY DEF LogTypeOK
    <3> QED
      BY <2>1, <2>3, <2>4, <3>1 DEF Lost
  <2>6. Left(w)' = 0
    BY <1>1, <2>1 DEF Left, Idle
  <2> QED
    BY <2>1, <2>5, <2>6 DEF Leaves
<1> QED
  BY <1>4, <1>5, <1>6, <1>7, <1>8, <1>9, <1>10, <1>11, <1>12 DEF Goes, Drop, Move

\* In a race, whoever takes a step, one of the two is ahead afterwards.
LEMMA RaceOnStep ==
  ASSUME LogTypeOK, PlacesOK, SinceOK, since' = since,
         NEW w \in Workers, NEW x \in Workers, w # x, Goes(w), job'[x] = job[x],
         FitOK(w, x), RaceOK(w, x) \/ RaceOK(x, w)
  PROVE  RaceOK(w, x)' \/ RaceOK(x, w)'
<1> USE LogConstants DEF LogConstants
<1> DEFINE half == (Backups \div 2) + 1
<1>0. /\ Left(w) \in 0..(Backups + 1) /\ Left(x) \in 0..(Backups + 1)
      /\ Left(w) \in Nat /\ Left(x) \in Nat /\ Left(x)' = Left(x)
      /\ Backups \in Nat /\ Backups >= 1 /\ Full \in Nat
      /\ Full * half \in Nat /\ half \in Nat
  <2>1. half \in Nat
    BY Half
  <2>2. Full * half \in Nat
    BY <2>1, FullTimes
  <2> HIDE DEF half
  <2> QED
    BY <2>1, <2>2, LeftType DEF Left
<1>a. Cardinality(Young) \in Nat
  BY YoungFinite
<1>b. PICK a \in 0..(Backups + 1) : a = Left(w)
  BY <1>0
<1>c. PICK b \in 0..(Backups + 1) : b = Left(x)
  BY <1>0
<1> HIDE DEF half
<1>d. /\ RaceOK(w, x) => b <= a /\ (b \in 1..Backups => file[b] = None)
                          /\ Cardinality(Young) + Full * More(a, b, file) <= Full * half
      /\ RaceOK(x, w) => a <= b /\ (a \in 1..Backups => file[a] = None)
                          /\ Cardinality(Young) + Full * More(b, a, file) <= Full * half
  BY <1>b, <1>c DEF RaceOK, half
<1>1. CASE Stays(w)
  <2>1. /\ file' = file /\ lines' = lines /\ written' = written /\ crashes' = crashes
        /\ Left(w)' = Left(w)
    BY <1>1 DEF Stays
  <2>2. Recent' = Recent /\ Kills' = Kills /\ LinesNow' = LinesNow /\ Lost' = Lost
    BY <2>1, Counted DEF LinesNow, Lost, Kept
  <2>3. Cardinality(Young)' = Cardinality(Young)
    BY <2>1, <2>2 DEF Young
  <2>4. NotBegun(w, x) => NotBegun(w, x)'
    BY <1>1, <2>1, <2>2 DEF NotBegun, New, Stays
  <2>5. NotBegun(x, w) => NotBegun(x, w)'
    BY <2>4 DEF NotBegun
  <2>6. CASE RaceOK(w, x)
    BY <1>0, <2>1, <2>3, <2>4, <2>6 DEF RaceOK, More, Filled
  <2>7. CASE RaceOK(x, w)
    BY <1>0, <2>1, <2>3, <2>5, <2>7 DEF RaceOK, More, Filled
  <2> QED
    BY <2>6, <2>7
<1>2. CASE Leaves(w)
  <2>1. /\ Left(w)' = 0 /\ Left(x)' = b
        /\ \A n \in 1..Backups : file'[n] = file[n]
    BY <1>0, <1>2, <1>c DEF Leaves
  <2>2. Cardinality(Young)' \in Nat /\ Cardinality(Young)' <= Cardinality(Young)
    <3>1. \A l \in Lost' \cap Recent' : l \in Recent /\ l \in Lost
      <4>1. \A l \in Lost : l \in 1..written
        BY DEF Lost
      <4> QED
        BY <1>2, <4>1, Counted DEF Leaves
    <3> QED
      BY <1>2, <3>1, YoungKept DEF Leaves
  <2>3. Cardinality(Young)' + Full * More(b, 0, file') <= Full * half
    <3>1. CASE RaceOK(w, x)
      <4>1. b \in 0..a
        BY <1>d, <3>1
      <4>2. More(b, 0, file') <= More(a, b, file)
        BY <1>d, <2>1, <3>1, <4>1, MoreOver
      <4>3. More(b, 0, file') \in Nat /\ More(a, b, file) \in Nat
        BY MoreType
      <4> QED
        BY <1>0, <1>a, <1>d, <2>2, <3>1, <4>2, <4>3, Charge
    <3>2. CASE RaceOK(x, w)
      <4>1. a \in 0..b
        BY <1>d, <3>2
      <4>2. More(b, 0, file') <= More(b, a, file)
        BY <1>d, <2>1, <3>2, <4>1, MoreOver
      <4>3. More(b, 0, file') \in Nat /\ More(b, a, file) \in Nat
        BY MoreType
      <4> QED
        BY <1>0, <1>a, <1>d, <2>2, <3>2, <4>2, <4>3, Charge
    <3> QED
      BY <3>1, <3>2
  <2>4. More(Left(x), Left(w), file)' = More(b, 0, file')
    BY <2>1 DEF More, Filled
  <2> QED
    BY <1>0, <2>1, <2>3, <2>4 DEF RaceOK, half
<1>3. CASE GoesOnByOne(w)
  <2>1. /\ lines' = lines /\ written' = written /\ crashes' = crashes
        /\ a \in 1..(Backups + 1) /\ a - 1 \in Names /\ a - 1 \in Nat
        /\ Left(w)' = a - 1 /\ Left(x)' = b
        /\ GoesOn(a, file, file')
        /\ a = Backups + 1 => job[w].pc \in {"oldest", "drop"}
    BY <1>0, <1>3, <1>b, <1>c DEF GoesOnByOne, Names
  <2>2. Recent' = Recent /\ Kills' = Kills /\ Kills \in Nat
    BY <2>1, Counted
  <2>3. file'[a - 1] = None
    BY <2>1 DEF GoesOn
  <2>4. ASSUME \A l \in Lost' \cap Recent' : l \in Lost \/ l + Full * Backups <= written + Full * Kills
        PROVE  Cardinality(Young)' \in Nat /\ Cardinality(Young)' <= Cardinality(Young)
    BY <2>1, <2>2, <2>4, YoungKept
  \* w goes ahead.
  <2>5. CASE a <= b
    <3>1. RaceOK(x, w)
      BY <1>b, <1>c, <2>5, RaceSides
    <3>2. Cardinality(Young)' \in Nat /\ Cardinality(Young)' <= Cardinality(Young)
      <4> SUFFICES ASSUME NEW l \in Lost' \cap Recent', l \notin Lost
                   PROVE  l + Full * Backups <= written + Full * Kills
        BY <2>4
      <4>1. Filled(a, file)
        BY <2>1, GoesOnLoses
      <4>2. a = Backups + 1
        BY <1>d, <2>1, <3>1, <4>1 DEF Filled
      <4>3. file[Backups] # None /\ l \in New(file[Backups])
        <5>1. PICK n \in Names : file[n] # None /\ l \in lines[file[n]] /\ n = Backups
          BY <2>1, <4>2, GoesOnLoses
        <5> QED
          BY <2>2, <5>1 DEF New
      <4>4. NotBegun(x, w) /\ job[w].pc \in {"oldest", "drop"}
        BY <1>b, <2>1, <3>1, <4>2 DEF RaceOK
      <4>5. LinesNow >= Full /\ l + LinesNow + Full * (Backups - 1) <= written + Full * Kills
        BY <4>3, <4>4 DEF NotBegun
      <4>6. /\ LinesNow \in Nat /\ l \in Nat /\ written \in Nat /\ Full * Kills \in Nat
            /\ Full * (Backups - 1) \in Nat /\ Full * Backups = Full * (Backups - 1) + Full
        <5>1. l \in 1..written
          BY <2>1 DEF Lost
        <5>2. Backups - 1 \in Nat /\ (Backups - 1) + 1 = Backups
          BY <1>0
        <5>3. Full * (Backups - 1) \in Nat /\ Full * ((Backups - 1) + 1) = Full * (Backups - 1) + Full
          BY <5>2, FullTimes
        <5>4. Full * Kills \in Nat
          BY <2>2, FullTimes
        <5> QED
          BY <5>1, <5>2, <5>3, <5>4, LinesNowType DEF LogTypeOK
      <4> QED
        BY <1>0, <4>5, <4>6
    <3>3. Cardinality(Young)' + Full * More(b, a - 1, file') <= Full * half
      <4>1. b \in 1..(Backups + 1) /\ a \in 1..b
        BY <1>0, <2>1, <2>5
      <4>2. More(b, a - 1, file') <= More(b, a, file)
        BY <1>d, <2>1, <3>1, <4>1, MoreAhead
      <4>3. More(b, a - 1, file') \in Nat /\ More(b, a, file) \in Nat
        BY <2>1, MoreType
      <4> QED
        BY <1>0, <1>a, <1>d, <3>1, <3>2, <4>2, <4>3, Charge
    <3>4. More(Left(x), Left(w), file)' = More(b, a - 1, file')
      BY <2>1 DEF More, Filled
    <3>5. a - 1 <= b /\ a - 1 # Backups + 1
      BY <1>0, <2>1, <2>5
    <3> QED
      BY <2>1, <2>3, <3>3, <3>4, <3>5 DEF RaceOK, half
  \* w follows, and may write over a backup.
  <2>6. CASE b < a
    <3>1. RaceOK(w, x)
      BY <1>d, <2>6
    <3> DEFINE cost == IF Filled(a, file) /\ file[a - 1] # None THEN 1 ELSE 0
    <3>2. More(a - 1, b, file') + cost <= More(a, b, file)
      <4>1. b \in 0..(a - 1)
        BY <2>6
      <4> QED
        BY <1>d, <2>1, <3>1, <4>1, MoreBehind
    <3>3. More(a - 1, b, file') \in Nat /\ More(a, b, file) \in Nat
      BY <2>1, MoreType
    <3>4. Cardinality(Young)' + Full * More(a - 1, b, file') <= Full * half
      <4>1. CASE cost = 0
        <5>1. ~(Filled(a, file) /\ file[a - 1] # None)
          BY <4>1
        <5>2. \A l \in Lost' : l \in Lost
          BY <2>1, <5>1, GoesOnLoses
        <5>3. Cardinality(Young)' \in Nat /\ Cardinality(Young)' <= Cardinality(Young)
          BY <2>4, <5>2
        <5>4. More(a - 1, b, file') <= More(a, b, file)
          BY <3>2, <3>3, <4>1
        <5> QED
          BY <1>0, <1>a, <1>d, <3>1, <3>3, <5>3, <5>4, Charge
      <4>2. CASE cost = 1
        <5>1. Filled(a, file) /\ file[a - 1] # None
          BY <4>2
        <5> DEFINE n == IF a = Backups + 1 THEN Backups ELSE a
        <5>2. n \in Names \ {0} /\ file[n] # None /\ n > 0
          BY <1>0, <2>1, <5>1 DEF Filled, Names
        <5>3. \A l \in Lost' : l \in Lost \/ l \in lines[file[n]]
          <6> SUFFICES ASSUME NEW l \in Lost', l \notin Lost PROVE l \in lines[file[n]]
            OBVIOUS
          <6>1. CASE a = Backups + 1
            BY <2>1, <6>1, GoesOnLoses
          <6>2. CASE a # Backups + 1
            <7>1. l \in 1..written /\ l \notin Kept'
              BY <2>1 DEF Lost
            <7>2. PICK m \in Names : file[m] # None /\ l \in lines[file[m]]
              BY <7>1 DEF Lost, Kept
            <7>3. a \in Names /\ \A k \in Names : file'[k] # file[m]
              BY <2>1, <6>2, <7>1, <7>2 DEF Kept, Names
            <7>4. m = a
              BY <2>1, <5>1, <7>2, <7>3 DEF GoesOn
            <7> QED
              BY <6>2, <7>2, <7>4
          <6> QED
            BY <6>1, <6>2
        <5>4. file[n] \in Files /\ Cardinality(New(file[n])) <= Full
          <6>1. Left(w) > 0
            BY <1>b, <2>1
          <6> QED
            BY <5>2, <6>1 DEF FitOK, LogTypeOK
        <5> HIDE DEF n
        <5>5. /\ Cardinality(Young)' \in Nat
              /\ Cardinality(Young)' <= Cardinality(Young) + Full
          BY <2>1, <5>3, <5>4, YoungGrows
        <5>6. More(a - 1, b, file') + 1 <= More(a, b, file)
          BY <3>2, <4>2
        <5> QED
          BY <1>0, <1>a, <1>d, <3>1, <3>3, <5>5, <5>6, Charge
      <4> QED
        BY <4>1, <4>2
    <3>5. More(Left(w), Left(x), file)' = More(a - 1, b, file')
      BY <2>1 DEF More, Filled
    <3>6. b \in 1..Backups => file'[b] = None
      <4>1. CASE b = a - 1
        BY <2>3, <4>1
      <4>2. CASE b # a - 1
        BY <1>d, <2>1, <2>6, <3>1, <4>2 DEF GoesOn, Names
      <4> QED
        BY <4>1, <4>2
    <3>7. b <= a - 1 /\ b # Backups + 1
      BY <1>0, <2>1, <2>6
    <3> QED
      BY <2>1, <3>4, <3>5, <3>6, <3>7 DEF RaceOK, half
  <2> QED
    BY <2>5, <2>6
<1> QED
  BY <1>1, <1>2, <1>3, StepKinds DEF FitOK

\* A call begins while another one, alone until then, goes on.
LEMMA RaceBegins ==
  ASSUME LogTypeOK, PlacesOK, OrderInv, CalmOK, [Next]_vars, Races = 0, Races' = 1
  PROVE  RaceInv'
<1> USE LogConstants DEF LogConstants
<1>1. since' = since /\ SinceOK /\ AloneOK
  BY RacesEnd DEF OrderInv
<1>2. overlaps' = overlaps + 1
  <2>1. overlaps \in Nat /\ since.overlaps \in 0..overlaps
    BY <1>1 DEF LogTypeOK, SinceOK
  <2>2. overlaps' \in {overlaps, overlaps + 1}
    BY DEF Next, LogNext, vars, Call, Abort, Size, Step, Oldest, Drop, Source, Move, Open, Write, Crash
  <2> QED
    BY <1>1, <2>1, <2>2 DEF Races
<1>3. overlaps' # overlaps
  BY <1>2 DEF LogTypeOK
<1>4. PICK v \in Workers : Call(v)
  BY <1>3 DEF Next, LogNext, vars, Abort, Size, Step, Oldest, Drop, Source, Move, Open, Write, Crash
<1>5. /\ UNCHANGED <<file, lines, written, crashes>>
      /\ Become(v, [Idle EXCEPT !.pc = "size"]) /\ At(v, "off")
  BY <1>4 DEF Call
<1>6. PICK u \in Workers : ~At(u, "off")
  BY <1>3, <1>4 DEF Call
<1>7. /\ u # v /\ u \in Active /\ job'[u] = job[u] /\ job'[v].pc = "size"
      /\ \A x \in Workers : x # u => At(x, "off")
      /\ \A x \in Workers : x # u /\ x # v => job'[x].pc = "off"
  BY <1>1, <1>5, <1>6 DEF AloneOK, Active, Become, Idle, LogTypeOK, At
<1>8. Active' \subseteq {v, u}
  BY <1>7 DEF Active, At
<1>9. /\ Recent' = Recent /\ Kills' = Kills /\ Kills \in Nat /\ LinesNow' = LinesNow /\ Lost' = Lost
      /\ \A n : New(file[n])' = New(file[n])
      /\ Left(u)' = Left(u) /\ Left(v)' = Backups + 1 /\ Left(u) \in 0..(Backups + 1)
  <2>1. Recent' = Recent /\ Kills' = Kills /\ Kills \in Nat
    BY <1>1, <1>5, Counted
  <2>2. LinesNow' = LinesNow /\ Lost' = Lost /\ \A n : New(file[n])' = New(file[n])
    BY <1>5, <2>1 DEF LinesNow, Lost, Kept, New
  <2> QED
    BY <1>7, <2>1, <2>2, LeftType DEF Left
<1>10. FitOK(v, u)'
  <2>1. /\ At(u, "open") \/ At(u, "write") => LinesNow < Full
        /\ \A n \in Names : file[n] # None => Cardinality(New(file[n])) <= Full
        /\ At(u, "write") => job[u].fd = file[0]
    BY <1>1 DEF CalmOK, AloneOK, At
  <2>2. WritesOK(v, u)'
    BY <1>7 DEF WritesOK, At
  <2>3. WritesOK(u, v)'
    BY <1>5, <1>7, <1>9, <2>1 DEF WritesOK, At
  <2> QED
    BY <1>5, <1>9, <2>1, <2>2, <2>3 DEF FitOK
<1>11. RaceOK(v, u)'
  <2>1. Cardinality(Young)' = 0
    <3>1. \A l \in Lost \cap Recent : l + Full * Backups <= written + Full * Kills
      BY DEF OrderInv, AgeOK
    <3>2. /\ written \in Nat /\ Full * Kills \in Nat /\ Full * Backups \in Nat /\ Recent \subseteq 1..written
      BY <1>1, <1>9, FullTimes, SinceType DEF LogTypeOK
    <3>3. Young = {}
      <4> SUFFICES ASSUME NEW l \in Young PROVE FALSE
        OBVIOUS
      <4>1. l \in Lost \cap Recent /\ l + Full * Backups > written + Full * Kills
        BY DEF Young
      <4>2. l + Full * Backups <= written + Full * Kills
        BY <3>1, <4>1
      <4>3. l \in 1..written
        BY <3>2, <4>1
      <4> QED
        BY <3>2, <4>1, <4>2, <4>3
    <3>4. Young' = Young
      BY <1>5, <1>9 DEF Young
    <3> QED
      BY <3>3, <3>4, FS_EmptySet
  <2>2. PICK b \in 0..(Backups + 1) : b = Left(u)
    BY <1>9
  <2>3. More(Backups + 1, b, file') \in Nat /\ More(Backups + 1, b, file') <= (Backups \div 2) + 1
    BY MoreType, MoreAtFirst
  <2>4. 0 + Full * More(Backups + 1, b, file') <= Full * ((Backups \div 2) + 1)
    <3>1. (Backups \div 2) + 1 \in Nat
      BY Half
    <3>2. Full * ((Backups \div 2) + 1) \in Nat
      BY <3>1, FullTimes
    <3> QED
      BY <2>3, <3>1, <3>2, Charge
  <2>5. More(Left(v), Left(u), file)' = More(Backups + 1, b, file')
    BY <1>9, <2>2 DEF More, Filled
  <2>6. Left(u) \in 1..Backups => file[Left(u)] = None
    BY <1>1, <1>7 DEF Left, AloneOK, At
  <2>7. Left(u) = Backups + 1 => NotBegun(v, u)'
    <3> SUFFICES ASSUME Left(u) = Backups + 1 PROVE NotBegun(v, u)'
      OBVIOUS
    <3>1. job[u].pc \in {"size", "oldest", "drop"}
      <4>1. job[u].pc \in {"source", "move"} => job[u].index + 1 # Backups + 1
        BY DEF PlacesOK, At
      <4> QED
        BY <4>1 DEF Left
    <3>2. job[u].pc \in {"oldest", "drop"} => LinesNow >= Full
      BY DEF OrderInv, AgeOK
    <3>3. \A n : ~Shifting(n)
      BY <1>7, <3>1 DEF Shifting, At
    <3>4. Aged(Backups)
      BY DEF OrderInv, AgeOK, Aged
    <3>5. file[Backups] # None => \A k \in New(file[Backups]) :
            k + LinesNow + Full * (Backups - 1) <= written + Full * Kills + 0
      BY <3>3, <3>4 DEF Aged, New
    <3>6. written + Full * Kills + 0 = written + Full * Kills
      BY <1>9, FullTimes DEF LogTypeOK
    <3> QED
      BY <1>5, <1>7, <1>9, <3>2, <3>5, <3>6 DEF NotBegun
  <2> QED
    BY <1>5, <1>9, <2>1, <2>4, <2>5, <2>6, <2>7 DEF RaceOK
<1> QED
  BY <1>7, <1>8, <1>10, <1>11 DEF RaceInv

LEMMA RaceStep ==
  LogTypeOK /\ PlacesOK /\ OrderInv /\ CalmOK /\ RaceInv /\ LogTypeOK' /\ PlacesOK' /\ [Next]_vars
    => RaceInv'
<1> SUFFICES ASSUME LogTypeOK, PlacesOK, OrderInv, CalmOK, RaceInv, LogTypeOK', PlacesOK', [Next]_vars,
                    Races' = 1
             PROVE  RaceInv'
  BY DEF RaceInv
<1>1. SinceOK /\ Races \in Nat /\ since' = since /\ Races <= 1
  BY RacesEnd, SinceType DEF OrderInv
<1>2. CASE Races = 0
  BY <1>2, RaceBegins
<1>3. CASE Races = 1
  <2>1. PICK u, v \in Workers : u # v /\ Active \subseteq {u, v} /\ FitOK(u, v) /\ RaceOK(u, v)
    BY <1>3 DEF RaceInv
  <2>2. UNCHANGED vars \/ \E w \in Workers : Goes(w)
    BY <1>1, <1>3, RaceGoesOn
  <2>3. CASE UNCHANGED vars
    <3>1. /\ file' = file /\ lines' = lines /\ written' = written /\ crashes' = crashes /\ job' = job
      BY <2>3 DEF vars
    <3>2. /\ Recent' = Recent /\ Kills' = Kills /\ LinesNow' = LinesNow /\ Lost' = Lost
      BY <1>1, <3>1, Counted DEF LinesNow, Lost, Kept
    <3>3. Active' = Active /\ Left(u)' = Left(u) /\ Left(v)' = Left(v)
      BY <3>1 DEF Active, At, Left
    <3>4. FitOK(u, v)'
      BY <2>1, <3>1, <3>2, <3>3 DEF FitOK, WritesOK, New, At
    <3>5. RaceOK(u, v)'
      BY <2>1, <3>1, <3>2, <3>3 DEF RaceOK, NotBegun, Young, New, More, Filled
    <3> QED
      BY <2>1, <3>3, <3>4, <3>5 DEF RaceInv
  <2>4. ASSUME NEW w \in Workers, NEW x \in Workers, w # x, Goes(w), {w, x} = {u, v}
        PROVE  RaceInv'
    <3>1. FitOK(w, x) /\ (RaceOK(w, x) \/ RaceOK(x, w)) /\ Active \subseteq {w, x}
      <4>1. (w = u /\ x = v) \/ (w = v /\ x = u)
        BY <2>4
      <4>2. FitOK(v, u)
        BY <2>1 DEF FitOK
      <4> QED
        BY <2>1, <4>1, <4>2
    <3>2. \A y \in Workers : y # w => job'[y] = job[y]
      BY <2>4 DEF Goes, Size, Oldest, Drop, Source, Move, Open, Write, Crash, Abort, Step, Become, LogTypeOK
    <3>3. Active' \subseteq {w, x}
      BY <3>1, <3>2 DEF Active, At
    <3>4. FitOK(w, x)'
      BY <1>1, <2>4, <3>1, FitStep
    <3>5. RaceOK(w, x)' \/ RaceOK(x, w)'
      BY <1>1, <2>4, <3>1, <3>2, RaceOnStep
    <3>6. FitOK(x, w)'
      BY <3>4 DEF FitOK
    <3> QED
      BY <2>4, <3>3, <3>4, <3>5, <3>6 DEF RaceInv
  <2>5. ASSUME NEW w \in Workers, Goes(w) PROVE RaceInv'
    <3>1. w \in Active
      BY <2>5 DEF Goes, Size, Oldest, Drop, Source, Move, Open, Write, Crash, Active, At
    <3>2. w = u \/ w = v
      BY <2>1, <3>1
    <3> QED
      BY <2>1, <2>4, <2>5, <3>2
  <2> QED
    BY <2>2, <2>3, <2>5
<1> QED
  BY <1>1, <1>2, <1>3

\* What is lost is young, or one of the first lines.
LEMMA RaceCount ==
  ASSUME LogTypeOK, PlacesOK, SinceOK, NEW u \in Workers, NEW v \in Workers, RaceOK(u, v)
  PROVE  Cardinality(Lost \cap Recent) <= (Kills + 1 * ((Backups \div 2) + 1)) * Full + Excess
<1> USE LogConstants DEF LogConstants
<1> DEFINE half == (Backups \div 2) + 1
           Old == {l \in Lost \cap Recent : l + Full * Backups <= written + Full * Kills}
           Mine == Lost \cap Recent
<1>1. Cardinality(Old) \in Nat /\ Cardinality(Old) <= Kills * Full + Excess
  <2>1. Old \subseteq {l \in Recent : l + Full * Backups <= written + Full * Kills}
    OBVIOUS
  <2> QED
    BY <2>1, FirstFew
<1>2. /\ Kills \in Nat /\ half \in Nat /\ Full \in Nat /\ written \in Nat /\ Excess \in Nat
      /\ Recent \subseteq 1..written
  <2>1. half \in Nat
    BY Half
  <2>2. /\ Kills \in Nat /\ written - since.written \in Nat /\ Recent \subseteq 1..written
    BY SinceType
  <2>3. Backups * Full \in Nat
    OBVIOUS
  <2>4. Excess \in Nat
    BY <2>2, <2>3 DEF Excess
  <2> QED
    BY <2>1, <2>2, <2>4 DEF LogTypeOK
<1>3. Cardinality(Young) \in Nat /\ Cardinality(Young) <= Full * half
  <2>1. More(Left(u), Left(v), file) \in Nat
    BY LeftType, MoreType
  <2>2. Full * More(Left(u), Left(v), file) \in Nat
    BY <2>1, FullTimes
  <2>3. Full * half \in Nat
    BY <1>2, FullTimes
  <2>4. Cardinality(Young) + Full * More(Left(u), Left(v), file) <= Full * half
    BY DEF RaceOK
  <2> HIDE DEF half
  <2> QED
    BY <2>2, <2>3, <2>4, YoungFinite
<1>4. Mine \in SUBSET (Old \cup Young)
  <2> SUFFICES ASSUME NEW l \in Mine, l \notin Old PROVE l \in Young
    OBVIOUS
  <2>1. /\ l \in Nat /\ written \in Nat /\ Full * Backups \in Nat /\ Full * Kills \in Nat
    <3>1. l \in 1..written
      BY <1>2
    <3> QED
      BY <1>2, <3>1, FullTimes
  <2> QED
    BY <2>1 DEF Young
<1>5. IsFiniteSet(Old) /\ IsFiniteSet(Young)
  <2>1. IsFiniteSet(1..written) /\ Old \in SUBSET (1..written)
    <3>1. IsFiniteSet(1..written)
      BY <1>2, FS_Interval
    <3>2. Old \subseteq Recent
      OBVIOUS
    <3> QED
      BY <1>2, <3>1, <3>2
  <2> QED
    BY <2>1, FS_Subset, YoungFinite
<1> HIDE DEF Old, Mine
<1>6. Cardinality(Mine) \in Nat /\ Cardinality(Mine) <= Cardinality(Old) + Cardinality(Young)
  <2>1. /\ IsFiniteSet(Old \cup Young)
        /\ Cardinality(Old \cup Young) = Cardinality(Old) + Cardinality(Young) - Cardinality(Old \cap Young)
    BY <1>5, FS_Union
  <2>2. IsFiniteSet(Old \cap Young)
    BY <1>5, FS_Intersection
  <2>3. Cardinality(Old \cap Young) \in Nat
    BY <2>2, FS_CardinalityType
  <2>4. IsFiniteSet(Mine) /\ Cardinality(Mine) <= Cardinality(Old \cup Young)
    BY <1>4, <2>1, FS_Subset
  <2>5. Cardinality(Mine) \in Nat
    BY <2>4, FS_CardinalityType
  <2> QED
    BY <1>1, <1>3, <2>1, <2>3, <2>4, <2>5
<1>7. (Kills + 1 * half) * Full + Excess = Kills * Full + Full * half + Excess
  <2> HIDE DEF half
  <2> QED
    BY <1>2
<1>8. Kills * Full \in Nat /\ Full * half \in Nat
  <2> HIDE DEF half
  <2> QED
    BY <1>2
<1>9. Cardinality(Mine) <= Kills * Full + Full * half + Excess
  <2> HIDE DEF half
  <2> QED
    BY <1>1, <1>2, <1>3, <1>6, <1>8
<1> QED
  BY <1>7, <1>9 DEF Mine

LEMMA OrderInit == Init => OrderInv
<1> SUFFICES ASSUME Init PROVE OrderInv
  OBVIOUS
<1>1. AloneOK
  BY DEF Init, AloneOK, Active, Doomed, At, Idle
<1>2. InOrder
  BY DEF Init, InOrder, Kept, Lost
<1>3. AgeOK
  <2>1. Lost = {} /\ \A n \in 1..Backups : file[n] = None
    BY LogConstants DEF LogConstants, Init, Lost, Names
  <2> QED
    BY <2>1 DEF Init, AgeOK, Idle
<1>4. SinceOK
  BY DEF Init, Counts, SinceOK
<1> QED
  BY <1>1, <1>2, <1>3, <1>4 DEF OrderInv

--------------------------------------------------------------------------------
(* The theorems *)

(* Types, places, accounts and room: the inductive invariant of the log.    *)
THEOREM LogInvHolds == Spec => []LogInv
<1>1. Init => LogInv
  <2> SUFFICES ASSUME Init PROVE LogInv
    OBVIOUS
  <2> USE LogConstants DEF LogConstants, Init
  <2>1. LogTypeOK
    BY IdleType DEF LogTypeOK
  <2>2. PlacesOK
    BY DEF PlacesOK, At, Idle
  <2>3. OverlapsPay
    <3>1. Active = {}
      BY DEF Active, At, Idle
    <3> QED
      BY <3>1, FS_EmptySet DEF OverlapsPay
  <2>4. RoomLeft
    <3> SUFFICES ASSUME NEW f \in Files
                 PROVE  Cardinality(lines[f]) + Cardinality(Pending(f)) < Full + Cardinality(Workers)
      BY DEF RoomLeft
    <3>1. lines[f] = {} /\ Pending(f) = {}
      BY DEF Pending, At, Idle
    <3> QED
      BY <3>1, FS_EmptySet, PendingFinite
  <2> QED
    BY <2>1, <2>2, <2>3, <2>4 DEF LogInv
<1>2. LogInv /\ [Next]_vars => LogInv'
  BY TypeStep, PayStep, RoomStep DEF LogInv
<1> QED
  BY <1>1, <1>2, PTL DEF Spec

(* Type correctness.                                                        *)
THEOREM LogTypeCorrect == Spec => []LogTypeOK
<1>1. LogInv => LogTypeOK
  BY DEF LogInv
<1> QED
  BY <1>1, LogInvHolds, PTL

(* An exception of log costs a line only for a call that overlapped another *)
(* one, however rotations interleave and wherever helpers are killed.       *)
THEOREM DropsAreOverlaps == Spec => []DroppedOnlyByRace
<1>1. LogInv => DroppedOnlyByRace
  <2> SUFFICES ASSUME LogInv PROVE dropped <= overlaps
    BY DEF DroppedOnlyByRace
  <2>1. Cardinality(Active) \in Nat /\ dropped \in Nat /\ overlaps \in Nat
    BY ActiveFinite DEF LogInv, LogTypeOK
  <2>2. CASE Active = {}
    BY <2>1, <2>2 DEF LogInv, OverlapsPay
  <2>3. CASE Active # {}
    <3>1. Cardinality(Active) # 0
      BY <2>3, ActiveFinite, FS_EmptySet
    <3> QED
      BY <2>1, <3>1 DEF LogInv, OverlapsPay
  <2> QED
    BY <2>2, <2>3
<1> QED
  BY <1>1, LogInvHolds, PTL

(* No file ever holds more than the limit and one line per helper.          *)
THEOREM FilesStayBounded == Spec => []FilesBounded
<1>1. LogInv => FilesBounded
  <2> SUFFICES ASSUME LogInv, NEW f \in Files
               PROVE  Cardinality(lines[f]) < Full + Cardinality(Workers)
    BY DEF FilesBounded
  <2>1. Cardinality(lines[f]) \in Nat /\ Cardinality(Pending(f)) \in Nat
    BY LinesFinite, PendingFinite DEF LogInv
  <2> QED
    BY <2>1, PendingFinite, LogConstants DEF LogInv, RoomLeft, LogConstants
<1> QED
  BY <1>1, LogInvHolds, PTL

(* As long as no two calls overlap, and again once a race is over, for the  *)
(* lines written since: the backups stay in order, only the oldest lines    *)
(* are lost, and of those that the backups have room for at most one backup *)
(* for every helper that was killed, wherever in a rotation it was.         *)
THEOREM LossesAreOldest == Spec => []OldestFirst
<1>2. LogInv /\ LogInv' /\ OrderInv /\ [Next]_vars => OrderInv'
  BY SinceStep, AloneStep, OrderStep, AgeStep DEF LogInv, OrderInv
<1>3. LogInv /\ OrderInv => OldestFirst
  BY LossesCount DEF LogInv, OrderInv, OldestFirst
<1> QED
  BY OrderInit, <1>2, <1>3, LogInvHolds, PTL DEF Spec

(* In the first race, and in the first after each time that stock is taken, *)
(* two calls that overlap lose at most one backup for the gap they may      *)
(* leave, and one for every two names, beyond what is lost without a race:  *)
(* however the two rotations interleave, and wherever helpers are killed.   *)
THEOREM LossesStayBounded == Spec => []LossesBounded
<1>1. Init => OrderInv /\ CalmOK /\ RaceInv
  <2> SUFFICES ASSUME Init PROVE OrderInv /\ CalmOK /\ RaceInv
    OBVIOUS
  <2>1. CalmOK
    BY DEF Init, CalmOK, Idle
  <2>2. Races = 0
    BY DEF Init, Races, Counts
  <2> QED
    BY <2>1, <2>2, OrderInit DEF RaceInv
<1>2. LogInv /\ LogInv' /\ OrderInv /\ CalmOK /\ RaceInv /\ [Next]_vars => OrderInv' /\ CalmOK' /\ RaceInv'
  BY SinceStep, AloneStep, OrderStep, AgeStep, CalmStep, RaceStep DEF LogInv, OrderInv
<1>3. LogInv /\ OrderInv /\ CalmOK /\ RaceInv => LossesBounded
  <2> SUFFICES ASSUME LogInv, OrderInv, CalmOK, RaceInv, Races <= 1
               PROVE  Cardinality(Lost \cap Recent) <=
                        (Kills + Races * ((Backups \div 2) + 1)) * Full + Excess
    BY DEF LossesBounded
  <2>1. Races \in Nat /\ Kills \in Nat /\ SinceOK /\ LogTypeOK /\ PlacesOK
    BY SinceType DEF LogInv, OrderInv
  <2>2. CASE Races = 0
    <3>1. Cardinality(Lost \cap Recent) <= Kills * Full + Excess
      BY <2>1, <2>2, LossesCount DEF OrderInv
    <3>2. (Backups \div 2) + 1 \in Nat
      BY LogConstants, Half DEF LogConstants
    <3>3. Kills + Races * ((Backups \div 2) + 1) = Kills
      BY <2>1, <2>2, <3>2
    <3> QED
      BY <3>1, <3>3
  <2>3. CASE Races = 1
    BY <2>1, <2>3, RaceCount DEF RaceInv
  <2> QED
    BY <2>1, <2>2, <2>3
<1> QED
  BY <1>1, <1>2, <1>3, LogInvHolds, PTL DEF Spec
================================================================================
