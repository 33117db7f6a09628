----------------------------- MODULE AnswersProofs -----------------------------
(* What the plumbing of requests and responses guarantees for every number  *)
(* of helpers and requests, whatever the names of the requests are, however *)
(* often helpers are killed, writes fail and the directory turns unsafe.    *)
EXTENDS Answers, TLAPS

--------------------------------------------------------------------------------
(* What a step of a helper makes of its local variables *)

JobsTyped == job \in [Workers -> Jobs]

PCs == {"off", "reap", "reaping", "lock", "next", "read", "reread", "write", "publish", "unlink"}

Kept(w) == \A v \in Workers \ {w} : job'[v] = job[v]

Has(j, pc, clock, rest, slot, todo, answer) ==
  /\ j.pc = pc /\ j.clock = clock /\ j.rest = rest /\ j.slot = slot
  /\ j.todo = todo /\ j.answer = answer

LEMMA Becomes ==
  ASSUME JobsTyped, NEW w \in Workers, NEW j \in Jobs, Become(w, j)
  PROVE  job' \in [Workers -> Jobs] /\ job'[w] = j /\ Kept(w)
  BY DEF JobsTyped, Become, Kept

LEMMA FieldsTyped ==
  ASSUME NEW j \in Jobs
  PROVE  /\ \A pc \in PCs : [j EXCEPT !.pc = pc] \in Jobs
         /\ \A c \in 0..MaxNow : [j EXCEPT !.clock = c] \in Jobs
         /\ \A S \in SUBSET Slots : [j EXCEPT !.rest = S] \in Jobs
         /\ \A s \in Slots \cup {Absent} : [j EXCEPT !.slot = s] \in Jobs
         /\ \A S \in SUBSET Ids : [j EXCEPT !.todo = S] \in Jobs
         /\ \A a \in Pending \cup {Absent} : [j EXCEPT !.answer = a] \in Jobs
         /\ \A t \in 0..3 : [j EXCEPT !.tries = t] \in Jobs
<1>1. \A pc \in PCs : [j EXCEPT !.pc = pc] \in Jobs
  BY DEF Jobs, PCs
<1>2. \A c \in 0..MaxNow : [j EXCEPT !.clock = c] \in Jobs
  BY DEF Jobs
<1>3. \A S \in SUBSET Slots : [j EXCEPT !.rest = S] \in Jobs
  BY DEF Jobs
<1>4. \A s \in Slots \cup {Absent} : [j EXCEPT !.slot = s] \in Jobs
  BY DEF Jobs
<1>5. \A S \in SUBSET Ids : [j EXCEPT !.todo = S] \in Jobs
  BY DEF Jobs
<1>6. \A a \in Pending \cup {Absent} : [j EXCEPT !.answer = a] \in Jobs
  BY DEF Jobs
<1>7. \A t \in 0..3 : [j EXCEPT !.tries = t] \in Jobs
  BY DEF Jobs
<1> QED
  BY <1>1, <1>2, <1>3, <1>4, <1>5, <1>6, <1>7

LEMMA OffTyped ==
  Off \in Jobs /\ Has(Off, "off", 0, {}, Absent, {}, Absent) /\ Off.tries = 0
<1>1. 0 \in 0..MaxNow
  BY AnswersConstants DEF AnswersConstants
<1> QED
  BY <1>1 DEF Off, Jobs, Has

LEMMA Moves ==
  ASSUME JobsTyped, NEW w \in Workers, NEW pc \in PCs, Become(w, [job[w] EXCEPT !.pc = pc])
  PROVE  /\ job' \in [Workers -> Jobs] /\ Kept(w)
         /\ Has(job'[w], pc, job[w].clock, job[w].rest, job[w].slot, job[w].todo, job[w].answer)
         /\ job'[w].tries = job[w].tries
<1> DEFINE j == [job[w] EXCEPT !.pc = pc]
<1>1. job[w] \in Jobs
  BY DEF JobsTyped
<1>2. j \in Jobs
  BY <1>1, FieldsTyped
<1>3. /\ Has(j, pc, job[w].clock, job[w].rest, job[w].slot, job[w].todo, job[w].answer)
      /\ j.tries = job[w].tries
  BY <1>1 DEF Jobs, Has
<1>4. Become(w, j)
  OBVIOUS
<1> HIDE DEF j
<1> QED
  BY <1>2, <1>3, <1>4, Becomes

LEMMA Stops ==
  ASSUME JobsTyped, NEW w \in Workers, Become(w, Off)
  PROVE  /\ job' \in [Workers -> Jobs] /\ Kept(w)
         /\ Has(job'[w], "off", 0, {}, Absent, {}, Absent)
  BY OffTyped, Becomes

Present == {s \in Slots : response[s] # Absent}

LEMMA Starts ==
  ASSUME JobsTyped, now \in 0..MaxNow, NEW w \in Workers, Start(w)
  PROVE  /\ job' \in [Workers -> Jobs] /\ Kept(w)
         /\ Has(job'[w], "reap", now, Present, Absent, {}, Absent)
<1> DEFINE j == [Off EXCEPT !.pc = "reap", !.clock = now, !.rest = Present]
<1>1. j \in Jobs
  <2>1. Present \in SUBSET Slots
    BY DEF Present
  <2>2. [Off EXCEPT !.pc = "reap"] \in Jobs
    BY OffTyped, FieldsTyped DEF PCs
  <2>3. [[Off EXCEPT !.pc = "reap"] EXCEPT !.clock = now] \in Jobs
    BY <2>2, FieldsTyped
  <2>4. [[[Off EXCEPT !.pc = "reap"] EXCEPT !.clock = now] EXCEPT !.rest = Present] \in Jobs
    BY <2>1, <2>3, FieldsTyped
  <2> QED
    BY <2>4, OffTyped DEF Jobs
<1>2. Has(j, "reap", now, Present, Absent, {}, Absent)
  BY OffTyped DEF Jobs, Has
<1>3. Become(w, j)
  BY DEF Start, Present
<1> HIDE DEF j
<1> QED
  BY <1>1, <1>2, <1>3, Becomes

(* the reaper leaves a response, or is about to remove it                   *)
Stale(w, s) == response[s] # Absent /\ job[w].clock > response[s].born + TTL

LEMMA Judges ==
  ASSUME JobsTyped, NEW w \in Workers, NEW s \in Slots, Judge(w, s)
  PROVE  /\ job' \in [Workers -> Jobs] /\ Kept(w)
         /\ Stale(w, s) => Has(job'[w], "reaping", job[w].clock, job[w].rest \ {s}, s,
                               job[w].todo, job[w].answer)
         /\ ~Stale(w, s) => Has(job'[w], "reap", job[w].clock, job[w].rest \ {s}, job[w].slot,
                                job[w].todo, job[w].answer)
<1> DEFINE j == [job[w] EXCEPT !.pc = "reaping", !.slot = s, !.rest = @ \ {s}]
           k == [job[w] EXCEPT !.rest = @ \ {s}]
<1>1. job[w] \in Jobs /\ job[w].pc = "reap" /\ (job[w].rest \ {s}) \in SUBSET Slots
  BY DEF JobsTyped, Judge, At, Jobs
<1>2. j \in Jobs
  <2>1. [job[w] EXCEPT !.pc = "reaping"] \in Jobs
    BY <1>1, FieldsTyped DEF PCs
  <2>2. [[job[w] EXCEPT !.pc = "reaping"] EXCEPT !.slot = s] \in Jobs
    BY <2>1, FieldsTyped
  <2>3. [[[job[w] EXCEPT !.pc = "reaping"] EXCEPT !.slot = s] EXCEPT !.rest = job[w].rest \ {s}] \in Jobs
    BY <1>1, <2>2, FieldsTyped
  <2> QED
    BY <1>1, <2>3 DEF Jobs
<1>3. k \in Jobs
  BY <1>1, FieldsTyped
<1>4. Has(j, "reaping", job[w].clock, job[w].rest \ {s}, s, job[w].todo, job[w].answer)
  BY <1>1 DEF Jobs, Has
<1>5. Has(k, "reap", job[w].clock, job[w].rest \ {s}, job[w].slot, job[w].todo, job[w].answer)
  BY <1>1 DEF Jobs, Has
<1>6. Become(w, IF Stale(w, s) THEN j ELSE k)
  BY DEF Judge, Stale
<1> HIDE DEF j, k
<1>7. CASE Stale(w, s)
  BY <1>2, <1>4, <1>6, <1>7, Becomes
<1>8. CASE ~Stale(w, s)
  BY <1>3, <1>5, <1>6, <1>8, Becomes
<1> QED
  BY <1>7, <1>8

LEMMA Reaps ==
  ASSUME JobsTyped, NEW w \in Workers, Reap(w) \/ ReapFails(w)
  PROVE  /\ job' \in [Workers -> Jobs] /\ Kept(w)
         /\ Has(job'[w], "reap", job[w].clock, job[w].rest, Absent, job[w].todo, job[w].answer)
<1> DEFINE j == [job[w] EXCEPT !.pc = "reap", !.slot = Absent]
<1>1. job[w] \in Jobs
  BY DEF JobsTyped
<1>2. j \in Jobs
  <2>1. [job[w] EXCEPT !.pc = "reap"] \in Jobs
    BY <1>1, FieldsTyped DEF PCs
  <2>2. [[job[w] EXCEPT !.pc = "reap"] EXCEPT !.slot = Absent] \in Jobs
    BY <2>1, FieldsTyped
  <2> QED
    BY <1>1, <2>2 DEF Jobs
<1>3. Has(j, "reap", job[w].clock, job[w].rest, Absent, job[w].todo, job[w].answer)
  BY <1>1 DEF Jobs, Has
<1>4. Become(w, j)
  BY DEF Reap, ReapFails
<1> HIDE DEF j
<1> QED
  BY <1>2, <1>3, <1>4, Becomes

LEMMA Acquires ==
  ASSUME JobsTyped, NEW w \in Workers, Acquire(w)
  PROVE  /\ job' \in [Workers -> Jobs] /\ Kept(w)
         /\ Has(job'[w], "next", 0, {}, Absent, There, Absent)
<1> DEFINE j == [Off EXCEPT !.pc = "next", !.todo = There]
<1>1. j \in Jobs
  <2>1. There \in SUBSET Ids
    BY DEF There
  <2>2. [Off EXCEPT !.pc = "next"] \in Jobs
    BY OffTyped, FieldsTyped DEF PCs
  <2>3. [[Off EXCEPT !.pc = "next"] EXCEPT !.todo = There] \in Jobs
    BY <2>1, <2>2, FieldsTyped
  <2> QED
    BY <2>3, OffTyped DEF Jobs
<1>2. Has(j, "next", 0, {}, Absent, There, Absent)
  BY OffTyped DEF Jobs, Has
<1>3. Become(w, j)
  BY DEF Acquire, There
<1> HIDE DEF j
<1> QED
  BY <1>1, <1>2, <1>3, Becomes

LEMMA GoesOn ==
  ASSUME JobsTyped, NEW w \in Workers, Unlink(w) \/ UnlinkFails(w)
  PROVE  /\ job' \in [Workers -> Jobs] /\ Kept(w)
         /\ Has(job'[w], "next", 0, {}, Absent, job[w].todo, Absent)
<1> DEFINE j == [Off EXCEPT !.pc = "next", !.todo = job[w].todo]
<1>1. j \in Jobs
  <2>1. job[w].todo \in SUBSET Ids
    BY DEF JobsTyped, Jobs
  <2>2. [Off EXCEPT !.pc = "next"] \in Jobs
    BY OffTyped, FieldsTyped DEF PCs
  <2>3. [[Off EXCEPT !.pc = "next"] EXCEPT !.todo = job[w].todo] \in Jobs
    BY <2>1, <2>2, FieldsTyped
  <2> QED
    BY <2>3, OffTyped DEF Jobs
<1>2. Has(j, "next", 0, {}, Absent, job[w].todo, Absent)
  BY OffTyped DEF Jobs, Has
<1>3. Become(w, j)
  BY DEF Unlink, UnlinkFails, NextRequest
<1> HIDE DEF j
<1> QED
  BY <1>1, <1>2, <1>3, Becomes

LEMMA Takes ==
  ASSUME JobsTyped, NEW w \in Workers, NEW i \in Ids, Take(w, i)
  PROVE  /\ job' \in [Workers -> Jobs] /\ Kept(w)
         /\ \E pc \in {"unlink", "read"} :
               /\ pc = "unlink" <=> Stem(i) = <<>>
               /\ Has(job'[w], pc, job[w].clock, job[w].rest, job[w].slot, job[w].todo \ {i},
                      [to |-> i, ok |-> FALSE])
<1> DEFINE pc == IF Stem(i) = <<>> THEN "unlink" ELSE "read"
           a  == [to |-> i, ok |-> FALSE]
           j  == [job[w] EXCEPT !.pc = pc, !.todo = @ \ {i}, !.answer = a]
<1>1. job[w] \in Jobs /\ (job[w].todo \ {i}) \in SUBSET Ids /\ a \in Pending
  BY DEF JobsTyped, Jobs, Pending
<1>2. pc \in {"unlink", "read"} /\ (pc = "unlink" <=> Stem(i) = <<>>) /\ pc \in PCs
  BY DEF PCs
<1>3. Become(w, j)
  BY DEF Take
<1> HIDE DEF pc, a
<1>4. j \in Jobs
  <2>1. [job[w] EXCEPT !.pc = pc] \in Jobs
    BY <1>1, <1>2, FieldsTyped
  <2>2. [[job[w] EXCEPT !.pc = pc] EXCEPT !.todo = job[w].todo \ {i}] \in Jobs
    BY <1>1, <2>1, FieldsTyped
  <2>3. [[[job[w] EXCEPT !.pc = pc] EXCEPT !.todo = job[w].todo \ {i}] EXCEPT !.answer = a] \in Jobs
    BY <1>1, <2>2, FieldsTyped
  <2> QED
    BY <1>1, <2>3 DEF Jobs
<1>5. Has(j, pc, job[w].clock, job[w].rest, job[w].slot, job[w].todo \ {i}, a)
  BY <1>1 DEF Jobs, Has
<1> HIDE DEF j
<1> QED
  BY <1>2, <1>3, <1>4, <1>5, Becomes DEF a

LEMMA Answered ==
  ASSUME JobsTyped, NEW w \in Workers, NEW ok \in BOOLEAN, NEW t \in 0..3, job[w].answer # Absent,
         Become(w, [job[w] EXCEPT !.pc = "write", !.answer.ok = ok, !.tries = t])
  PROVE  /\ job' \in [Workers -> Jobs] /\ Kept(w)
         /\ job'[w].pc = "write" /\ job'[w].tries = t
         /\ job'[w].answer # Absent /\ job'[w].answer.to = job[w].answer.to
         /\ job'[w].clock = job[w].clock /\ job'[w].rest = job[w].rest /\ job'[w].slot = job[w].slot
         /\ job'[w].todo = job[w].todo
<1> DEFINE a == [job[w].answer EXCEPT !.ok = ok]
           j == [job[w] EXCEPT !.pc = "write", !.answer.ok = ok, !.tries = t]
<1>1. job[w] \in Jobs /\ job[w].answer \in Pending
  BY DEF JobsTyped, Jobs
<1>2. a \in Pending /\ a # Absent /\ a.to = job[w].answer.to
  BY <1>1, AbsentApart DEF AbsentApart, Pending
<1> HIDE DEF a
<1>3. j \in Jobs
  <2>1. [job[w] EXCEPT !.pc = "write"] \in Jobs
    BY <1>1, FieldsTyped DEF PCs
  <2>2. [[job[w] EXCEPT !.pc = "write"] EXCEPT !.answer = a] \in Jobs
    BY <1>2, <2>1, FieldsTyped
  <2>3. [[[job[w] EXCEPT !.pc = "write"] EXCEPT !.answer = a] EXCEPT !.tries = t] \in Jobs
    BY <2>2, FieldsTyped
  <2> QED
    BY <1>1, <2>3 DEF Jobs, a
<1>4. /\ j.pc = "write" /\ j.tries = t /\ j.answer = a
      /\ j.clock = job[w].clock /\ j.rest = job[w].rest /\ j.slot = job[w].slot /\ j.todo = job[w].todo
  BY <1>1 DEF Jobs, a
<1> HIDE DEF j
<1> QED
  BY <1>2, <1>3, <1>4, Becomes DEF j

(* The request in hand stays in hand.                                       *)
Serves(w) ==
  /\ job' \in [Workers -> Jobs] /\ Kept(w)
  /\ job[w].pc \in Holding \ {"unlink"} /\ job'[w].pc \in Holding \ {"read"}
  /\ job'[w].answer # Absent /\ job'[w].answer.to = job[w].answer.to
  /\ job'[w].clock = job[w].clock /\ job'[w].slot = job[w].slot /\ job'[w].todo = job[w].todo

LEMMA Responds ==
  ASSUME JobsTyped, NEW w \in Workers, NEW ok \in BOOLEAN, job[w].answer # Absent, Respond(w, ok),
         job[w].pc \in {"read", "reread"}
  PROVE  Serves(w) /\ job'[w].pc = "write" /\ job'[w].tries \in {2, 3}
<1> DEFINE t == IF ok THEN 3 ELSE 2
<1>1. t \in {2, 3} /\ t \in 0..3
  OBVIOUS
<1>2. Become(w, [job[w] EXCEPT !.pc = "write", !.answer.ok = ok, !.tries = t])
  BY DEF Respond
<1> HIDE DEF t
<1>3. /\ job' \in [Workers -> Jobs] /\ Kept(w)
      /\ job'[w].pc = "write" /\ job'[w].tries = t
      /\ job'[w].answer # Absent /\ job'[w].answer.to = job[w].answer.to
      /\ job'[w].clock = job[w].clock /\ job'[w].slot = job[w].slot /\ job'[w].todo = job[w].todo
  BY <1>1, <1>2, Answered
<1> QED
  BY <1>1, <1>3 DEF Serves, Holding

LEMMA Reads ==
  ASSUME JobsTyped, NEW w \in Workers, job[w].answer # Absent, ReadRequest(w) \/ RereadRequest(w)
  PROVE  /\ Serves(w)
         /\ \/ job'[w].pc = "reread"
            \/ job'[w].pc = "write" /\ job'[w].tries \in {2, 3}
<1>1. \/ job[w].pc \in {"read", "reread"} /\ \E ok \in BOOLEAN : Respond(w, ok)
      \/ job[w].pc = "read" /\ Become(w, [job[w] EXCEPT !.pc = "reread"])
  BY DEF ReadRequest, RereadRequest, At
<1>2. CASE job[w].pc \in {"read", "reread"} /\ \E ok \in BOOLEAN : Respond(w, ok)
  BY <1>2, Responds
<1>3. CASE job[w].pc = "read" /\ Become(w, [job[w] EXCEPT !.pc = "reread"])
  BY <1>3, Moves DEF PCs, Has, Serves, Holding
<1> QED
  BY <1>1, <1>2, <1>3

LEMMA Writes ==
  ASSUME JobsTyped, NEW w \in Workers, job[w].answer # Absent
  PROVE  /\ WriteTemp(w) => Serves(w) /\ job'[w].pc = "publish" /\ job'[w].tries = job[w].tries
         /\ Publish(w) => Serves(w) /\ job'[w].pc = "unlink"
<1>1. WriteTemp(w) => Serves(w) /\ job'[w].pc = "publish" /\ job'[w].tries = job[w].tries
  BY Moves DEF WriteTemp, At, PCs, Has, Serves, Holding
<1>2. ASSUME Publish(w) PROVE Serves(w) /\ job'[w].pc = "unlink"
  <2>1. Become(w, [job[w] EXCEPT !.pc = "unlink"]) /\ job[w].pc = "publish"
    BY <1>2 DEF Publish, At
  <2> QED
    BY <2>1, Moves DEF PCs, Has, Serves, Holding
<1> QED
  BY <1>1, <1>2

LEMMA Fails ==
  ASSUME JobsTyped, NEW w \in Workers, job[w].answer # Absent, job[w].tries # 0, WriteFails(w)
  PROVE  /\ Serves(w)
         /\ \/ job[w].tries = 1 /\ job'[w].pc = "unlink"
            \/ job[w].tries # 1 /\ job'[w].pc = "write" /\ job'[w].tries \in {1, 2}
<1>1. job[w].tries \in {1, 2, 3} /\ job[w].pc \in {"write", "publish"}
  BY DEF JobsTyped, Jobs, WriteFails
<1>2. CASE job[w].tries = 1
  <2>1. Become(w, [job[w] EXCEPT !.pc = "unlink"])
    BY <1>2 DEF WriteFails
  <2> QED
    BY <1>1, <1>2, <2>1, Moves DEF PCs, Has, Serves, Holding
<1>3. CASE job[w].tries # 1
  <2> DEFINE t == job[w].tries - 1
  <2>1. Become(w, [job[w] EXCEPT !.pc = "write", !.answer.ok = FALSE, !.tries = t])
    BY <1>3 DEF WriteFails
  <2>2. t \in {1, 2} /\ t \in 0..3
    BY <1>1, <1>3
  <2> HIDE DEF t
  <2>3. /\ job' \in [Workers -> Jobs] /\ Kept(w)
        /\ job'[w].pc = "write" /\ job'[w].tries = t
        /\ job'[w].answer # Absent /\ job'[w].answer.to = job[w].answer.to
        /\ job'[w].clock = job[w].clock /\ job'[w].slot = job[w].slot /\ job'[w].todo = job[w].todo
    BY <2>1, <2>2, Answered
  <2> QED
    BY <1>1, <1>3, <2>2, <2>3 DEF Serves, Holding
<1> QED
  BY <1>2, <1>3

--------------------------------------------------------------------------------
(* Types *)

Acts(w) == ReaperNext(w) \/ DrainNext(w) \/ Crash(w)

LEMMA JobsStep ==
  ASSUME AnswersInv, [Next]_vars
  PROVE  /\ job' \in [Workers -> Jobs]
         /\ job' = job \/ \E w \in Workers : Acts(w)
         /\ \A w \in Workers : Acts(w) => Kept(w)
<1>0. /\ JobsTyped /\ now \in 0..MaxNow
      /\ \A w \in Workers : job[w].pc \in Holding => job[w].answer # Absent
      /\ \A w \in Workers : job[w].pc \in {"write", "publish"} => job[w].tries # 0
  BY DEF AnswersInv, AnswersTypeOK, JobsTyped, LockOK, TriesOK
<1>1. ASSUME NEW w \in Workers, Acts(w) PROVE job' \in [Workers -> Jobs] /\ Kept(w)
  <2>1. CASE Start(w) \/ (\E s \in Slots : Judge(w, s)) \/ Reap(w) \/ ReapFails(w)
    BY <1>0, <2>1, Starts, Judges, Reaps
  <2>2. CASE ReapDone(w)
    BY <1>0, <2>2, Moves DEF ReapDone, PCs
  <2>3. CASE Acquire(w) \/ (\E i \in Ids : Take(w, i)) \/ Unlink(w) \/ UnlinkFails(w)
    BY <1>0, <2>3, Acquires, Takes, GoesOn
  <2>4. CASE LockTimeout(w) \/ Finish(w) \/ Crash(w)
    BY <1>0, <2>4, Stops DEF LockTimeout, Finish, Crash
  <2>5. CASE ReadRequest(w) \/ RereadRequest(w) \/ WriteTemp(w) \/ Publish(w) \/ WriteFails(w)
    <3>1. job[w].answer # Absent
      BY <1>0, <2>5 DEF ReadRequest, RereadRequest, WriteTemp, Publish, WriteFails, At, Holding
    <3>2. WriteFails(w) => job[w].tries # 0
      BY <1>0 DEF WriteFails
    <3> QED
      BY <1>0, <2>5, <3>1, <3>2, Reads, Writes, Fails DEF Serves
  <2> QED
    BY <1>1, <2>1, <2>2, <2>3, <2>4, <2>5 DEF Acts, ReaperNext, DrainNext
<1>2. ASSUME UNCHANGED vars \/ Tick \/ Break \/ Repair \/ \E i \in Ids : Post(i) \/ Complete(i) \/ Collect(i)
      PROVE  job' = job
  BY <1>2 DEF vars, Tick, Break, Repair, Post, Complete, Collect
<1>3. \/ \E w \in Workers : Acts(w)
      \/ UNCHANGED vars \/ Tick \/ Break \/ Repair \/ \E i \in Ids : Post(i) \/ Complete(i) \/ Collect(i)
  BY DEF Next, Acts
<1> QED
  BY <1>0, <1>1, <1>2, <1>3 DEF JobsTyped

LEMMA HelperFrames ==
  ASSUME NEW w \in Workers, Acts(w)
  PROVE  /\ UNCHANGED <<now, asked, safe, breaks>>
         /\ ~Unlink(w) => request' = request
         /\ ~Publish(w) /\ ~Reap(w) => response' = response
         /\ ~Publish(w) => UNCHANGED <<answered, published>>
         /\ ~Acquire(w) /\ ~Finish(w) /\ ~Crash(w) => lock' = lock
         /\ ~Crash(w) => UNCHANGED <<litter, crashes>>
         /\ ~ReapFails(w) /\ ~WriteFails(w) /\ ~UnlinkFails(w) => errors' = errors
<1> USE DEF Acts, ReaperNext, DrainNext, Start, Judge, Reap, ReapFails, ReapDone, Acquire, LockTimeout,
            Take, Finish, ReadRequest, RereadRequest, WriteTemp, Publish, WriteFails, Unlink,
            UnlinkFails, Crash, files, ghosts, faults
<1>1. UNCHANGED <<now, asked, safe, breaks>>
  OBVIOUS
<1>2. (~Unlink(w) => request' = request) /\ (~Publish(w) /\ ~Reap(w) => response' = response)
  OBVIOUS
<1>3. ~Publish(w) => UNCHANGED <<answered, published>>
  OBVIOUS
<1>4. /\ ~Acquire(w) /\ ~Finish(w) /\ ~Crash(w) => lock' = lock
      /\ ~Crash(w) => UNCHANGED <<litter, crashes>>
  OBVIOUS
<1>5. ~ReapFails(w) /\ ~WriteFails(w) /\ ~UnlinkFails(w) => errors' = errors
  OBVIOUS
<1> QED
  BY <1>1, <1>2, <1>3, <1>4, <1>5

LEMMA OtherFrames ==
  ASSUME UNCHANGED vars \/ Tick \/ Break \/ Repair \/ \E i \in Ids : Post(i) \/ Complete(i) \/ Collect(i)
  PROVE  /\ UNCHANGED <<litter, lock, job, crashes, errors, answered, published>>
         /\ ~Tick => now' = now
         /\ (\A i \in Ids : ~Post(i)) => asked' = asked
         /\ (\A i \in Ids : ~Post(i) /\ ~Complete(i)) => request' = request
         /\ (\A i \in Ids : ~Collect(i)) => response' = response
         /\ ~Break /\ ~Repair => safe' = safe
         /\ ~Break => breaks' = breaks
  BY DEF vars, Tick, Break, Repair, Post, Complete, Collect, files, ghosts, faults

(* What becomes of the request files, the responses and the counters.       *)
LEMMA CountsGrow ==
  ASSUME AnswersTypeOK, [Next]_vars
  PROVE  /\ crashes \in Nat /\ errors \in Nat /\ breaks \in Nat /\ now \in Nat
         /\ crashes' \in {crashes, crashes + 1} /\ errors' \in {errors, errors + 1}
         /\ breaks' \in {breaks, breaks + 1} /\ now' \in {now, now + 1}
         /\ crashes' <= MaxCrashes /\ errors' <= MaxErrors /\ breaks' <= MaxBreaks /\ now' <= MaxNow
<1>0. /\ MaxNow \in Nat /\ MaxCrashes \in Nat /\ MaxErrors \in Nat /\ MaxBreaks \in Nat
      /\ now \in 0..MaxNow /\ crashes \in 0..MaxCrashes /\ errors \in 0..MaxErrors
      /\ breaks \in 0..MaxBreaks
  BY AnswersConstants DEF AnswersConstants, AnswersTypeOK
<1>1. errors' = errors \/ (errors < MaxErrors /\ errors' = errors + 1)
  <2>1. ASSUME NEW w \in Workers, ReapFails(w) \/ WriteFails(w) \/ UnlinkFails(w)
        PROVE  errors' = errors \/ (errors < MaxErrors /\ errors' = errors + 1)
    BY <2>1 DEF ReapFails, WriteFails, UnlinkFails, Fault
  <2> QED
    BY <2>1, HelperFrames, OtherFrames DEF Next, Acts
<1>2. crashes' = crashes \/ (crashes < MaxCrashes /\ crashes' = crashes + 1)
  <2>1. ASSUME NEW w \in Workers, Crash(w) PROVE crashes < MaxCrashes /\ crashes' = crashes + 1
    BY <2>1 DEF Crash
  <2> QED
    BY <2>1, HelperFrames, OtherFrames DEF Next, Acts
<1>3. breaks' = breaks \/ (breaks < MaxBreaks /\ breaks' = breaks + 1)
  <2>1. ASSUME Break PROVE breaks < MaxBreaks /\ breaks' = breaks + 1
    BY <2>1 DEF Break
  <2> QED
    BY <2>1, HelperFrames, OtherFrames DEF Next, Acts
<1>4. now' = now \/ (now < MaxNow /\ now' = now + 1)
  <2>1. ASSUME Tick PROVE now < MaxNow /\ now' = now + 1
    BY <2>1 DEF Tick
  <2> QED
    BY <2>1, HelperFrames, OtherFrames DEF Next, Acts
<1>5. /\ crashes' \in {crashes, crashes + 1} /\ crashes' <= MaxCrashes
      /\ errors' \in {errors, errors + 1} /\ errors' <= MaxErrors
  BY <1>0, <1>1, <1>2
<1>6. /\ breaks' \in {breaks, breaks + 1} /\ breaks' <= MaxBreaks
      /\ now' \in {now, now + 1} /\ now' <= MaxNow
  BY <1>0, <1>3, <1>4
<1> QED
  BY <1>0, <1>5, <1>6

LEMMA InHand ==
  ASSUME AnswersInv, NEW w \in Workers, job[w].pc \in Holding
  PROVE  /\ job[w].answer \in Pending /\ job[w].answer.to \in Ids
         /\ request[job[w].answer.to] # Absent /\ job[w].answer.to \in asked /\ lock = w
<1>1. job[w].answer \in Pending
  BY DEF AnswersInv, AnswersTypeOK, LockOK, Jobs
<1> QED
  BY <1>1 DEF AnswersInv, LockOK, Pending

LEMMA TypeStep ==
  ASSUME AnswersInv, [Next]_vars
  PROVE  AnswersTypeOK'
<1>0. /\ AnswersTypeOK /\ now \in 0..MaxNow
      /\ request \in [Ids -> Contents \cup {Absent}]
      /\ response \in [Slots -> Responses \cup {Absent}] /\ published \in [Slots -> Nat]
  BY DEF AnswersInv, AnswersTypeOK
<1>1. job' \in [Workers -> Jobs]
  BY JobsStep
<1>2. /\ now' \in 0..MaxNow /\ crashes' \in 0..MaxCrashes /\ errors' \in 0..MaxErrors
      /\ breaks' \in 0..MaxBreaks
  BY <1>0, CountsGrow, AnswersConstants DEF AnswersConstants
<1>3. asked' \subseteq Ids /\ safe' \in BOOLEAN
  <2>1. ASSUME NEW i \in Ids, Post(i) PROVE asked' \subseteq Ids
    BY <1>0, <2>1 DEF Post, AnswersTypeOK
  <2>2. asked \subseteq Ids /\ safe \in BOOLEAN /\ (Break \/ Repair => safe' \in BOOLEAN)
    BY <1>0 DEF Break, Repair, AnswersTypeOK
  <2> QED
    BY <2>1, <2>2, HelperFrames, OtherFrames DEF Next, Acts
<1>4. request' \in [Ids -> Contents \cup {Absent}]
  <2>1. ASSUME NEW w \in Workers, Unlink(w) PROVE request' \in [Ids -> Contents \cup {Absent}]
    BY <1>0, <2>1 DEF Unlink
  <2>2. ASSUME NEW i \in Ids, Post(i) \/ Complete(i) PROVE request' \in [Ids -> Contents \cup {Absent}]
    BY <1>0, <2>2 DEF Post, Complete, Contents
  <2> QED
    BY <1>0, <2>1, <2>2, HelperFrames, OtherFrames DEF Next, Acts
<1>5. response' \in [Slots -> Responses \cup {Absent}] /\ published' \in [Slots -> Nat] /\ answered' \subseteq Ids
  <2>0. answered \subseteq Ids
    BY <1>0 DEF AnswersTypeOK
  <2>1. ASSUME NEW w \in Workers, Reap(w) PROVE response' \in [Slots -> Responses \cup {Absent}]
    BY <1>0, <2>1 DEF Reap
  <2>2. ASSUME NEW i \in Ids, Collect(i) PROVE response' \in [Slots -> Responses \cup {Absent}]
    BY <1>0, <2>2 DEF Collect
  <2>3. ASSUME NEW w \in Workers, Publish(w)
        PROVE  /\ response' \in [Slots -> Responses \cup {Absent}] /\ published' \in [Slots -> Nat]
               /\ answered' \subseteq Ids
    <3> DEFINE a == job[w].answer
               r == [to |-> a.to, ok |-> a.ok, born |-> now]
    <3>1. a \in Pending /\ a.to \in Ids
      BY <2>3, InHand DEF Publish, At, Holding
    <3>2. r \in Responses
      BY <1>0, <3>1 DEF Responses, Pending
    <3>3. /\ response' = [response EXCEPT ![Stem(a.to)] = r]
          /\ answered' = answered \cup {a.to}
          /\ published' = [published EXCEPT ![Stem(a.to)] = @ + 1]
      BY <2>3 DEF Publish
    <3>4. Stem(a.to) \in Slots
      BY <3>1 DEF Slots
    <3> HIDE DEF r
    <3> QED
      BY <1>0, <2>0, <3>1, <3>2, <3>3, <3>4
  <2>4. ASSUME NEW w \in Workers, Acts(w), ~Publish(w)
        PROVE  /\ response' \in [Slots -> Responses \cup {Absent}] /\ published' \in [Slots -> Nat]
               /\ answered' \subseteq Ids
    BY <1>0, <2>0, <2>1, <2>4, HelperFrames
  <2> QED
    BY <1>0, <2>0, <2>2, <2>3, <2>4, OtherFrames DEF Next, Acts
<1>6. litter' \in Seq(0..MaxNow) /\ lock' \in Workers \cup {Absent}
  <2>0. litter \in Seq(0..MaxNow) /\ lock \in Workers \cup {Absent}
    BY <1>0 DEF AnswersTypeOK
  <2>1. ASSUME NEW w \in Workers, Crash(w)
        PROVE  litter' \in Seq(0..MaxNow) /\ lock' \in {lock, Absent}
    <3>1. litter' = Append(litter, now) \/ litter' = litter
      BY <2>1 DEF Crash
    <3>2. Append(litter, now) \in Seq(0..MaxNow)
      BY <1>0, <2>0
    <3>3. lock' \in {lock, Absent}
      BY <2>1 DEF Crash
    <3> QED
      BY <2>0, <3>1, <3>2, <3>3
  <2>2. ASSUME NEW w \in Workers, Acquire(w) \/ Finish(w) PROVE lock' \in {w, Absent}
    BY <2>2 DEF Acquire, Finish
  <2> QED
    BY <2>0, <2>1, <2>2, HelperFrames, OtherFrames DEF Next, Acts
<1> QED
  BY <1>1, <1>2, <1>3, <1>4, <1>5, <1>6 DEF AnswersTypeOK

--------------------------------------------------------------------------------
(* Who drains holds the lock *)

HandOK(w) ==
  /\ job[w].pc \in Holding \cup {"next"} => lock = w /\ \A i \in job[w].todo : request[i] # Absent
  /\ job[w].pc \in Holding =>
        job[w].answer # Absent /\ request[job[w].answer.to] # Absent /\ job[w].answer.to \notin job[w].todo

(* The steps that serve a request without removing it.                      *)
Steps(w) == ReadRequest(w) \/ RereadRequest(w) \/ WriteTemp(w) \/ Publish(w) \/ WriteFails(w)

LEMMA Serving ==
  ASSUME AnswersInv, NEW w \in Workers, Steps(w)
  PROVE  Serves(w) /\ request' = request /\ lock' = lock /\ job[w].pc \in Holding
<1>0. JobsTyped
  BY DEF AnswersInv, AnswersTypeOK, JobsTyped
<1>1. job[w].pc \in Holding
  BY DEF Steps, ReadRequest, RereadRequest, WriteTemp, Publish, WriteFails, At, Holding
<1>2. job[w].answer # Absent
  BY <1>1 DEF AnswersInv, LockOK
<1>3. WriteFails(w) => job[w].tries # 0
  BY DEF WriteFails, AnswersInv, TriesOK
<1>4. Serves(w)
  BY <1>0, <1>2, <1>3, Reads, Writes, Fails DEF Steps
<1>5. request' = request /\ lock' = lock
  BY DEF Steps, ReadRequest, RereadRequest, WriteTemp, Publish, WriteFails, files
<1> QED
  BY <1>1, <1>4, <1>5

(* The steps after which a helper drains nothing.                           *)
Idles(w) ==
  \/ Start(w) \/ (\E s \in Slots : Judge(w, s)) \/ Reap(w) \/ ReapFails(w) \/ ReapDone(w)
  \/ LockTimeout(w) \/ Finish(w) \/ Crash(w)

LEMMA Idling ==
  ASSUME AnswersInv, NEW w \in Workers, Idles(w)
  PROVE  /\ job'[w].pc \notin Holding \cup {"next"} /\ request' = request
         /\ lock' = lock \/ (lock = w /\ lock' = Absent)
<1> USE DEF Holding
<1>0. JobsTyped /\ now \in 0..MaxNow
      /\ (job[w].pc = "next" => lock = w)
  BY DEF AnswersInv, AnswersTypeOK, JobsTyped, LockOK
<1>1. CASE Start(w) \/ (\E s \in Slots : Judge(w, s)) \/ Reap(w) \/ ReapFails(w)
  <2>1. job'[w].pc \in {"reap", "reaping"}
    BY <1>0, <1>1, Starts, Judges, Reaps DEF Has
  <2>2. request' = request /\ lock' = lock
    BY <1>1 DEF Start, Judge, Reap, ReapFails, files
  <2> QED
    BY <2>1, <2>2
<1>2. CASE ReapDone(w)
  <2>1. job'[w].pc = "lock"
    BY <1>0, <1>2, Moves DEF ReapDone, PCs, Has
  <2> QED
    BY <1>2, <2>1 DEF ReapDone, files
<1>3. CASE LockTimeout(w) \/ Finish(w) \/ Crash(w)
  <2>1. job'[w].pc = "off"
    BY <1>0, <1>3, Stops DEF LockTimeout, Finish, Crash, Has
  <2> QED
    BY <1>0, <1>3, <2>1 DEF LockTimeout, Finish, Crash, files, At
<1> QED
  BY <1>1, <1>2, <1>3 DEF Idles

LEMMA WhoActs ==
  ASSUME NEW w \in Workers, Acts(w)
  PROVE  Idles(w) \/ Steps(w) \/ Acquire(w) \/ (\E i \in Ids : Take(w, i)) \/ Unlink(w) \/ UnlinkFails(w)
  BY DEF Acts, ReaperNext, DrainNext, Idles, Steps

LEMMA HandStep ==
  ASSUME AnswersInv, NEW w \in Workers, Acts(w)
  PROVE  HandOK(w)'
<1>0. /\ JobsTyped /\ now \in 0..MaxNow /\ HandOK(w)
      /\ request \in [Ids -> Contents \cup {Absent}]
      /\ job[w].todo \subseteq Ids
  BY DEF AnswersInv, AnswersTypeOK, JobsTyped, LockOK, HandOK, Jobs
<1>1. CASE Idles(w)
  BY <1>1, Idling DEF HandOK
<1>2. CASE Steps(w)
  BY <1>0, <1>2, Serving DEF HandOK, Serves
<1>3. CASE Acquire(w)
  <2>1. job'[w].pc = "next" /\ job'[w].todo = There /\ lock' = w /\ request' = request
    BY <1>0, <1>3, Acquires DEF Has, Acquire, files
  <2> QED
    BY <2>1 DEF HandOK, Holding, There
<1>4. ASSUME NEW i \in Ids, Take(w, i) PROVE HandOK(w)'
  <2>1. /\ job[w].pc = "next" /\ i \in job[w].todo /\ request' = request /\ lock' = lock
    BY <1>4 DEF Take, At, files
  <2>2. /\ job'[w].todo = job[w].todo \ {i} /\ job'[w].answer = [to |-> i, ok |-> FALSE]
    BY <1>0, <1>4, Takes DEF Has
  <2>3. job'[w].answer # Absent /\ job'[w].answer.to = i
    <3> DEFINE a == [to |-> i, ok |-> FALSE]
    <3>1. a.to = i /\ a \in Pending
      BY DEF Pending
    <3>2. job'[w].answer = a
      BY <2>2
    <3> HIDE DEF a
    <3>3. a # Absent
      BY <3>1, AbsentApart DEF AbsentApart
    <3> QED
      BY <3>1, <3>2, <3>3
  <2> QED
    BY <1>0, <2>1, <2>2, <2>3 DEF HandOK
<1>5. CASE Unlink(w) \/ UnlinkFails(w)
  <2>1. job'[w].pc = "next" /\ job'[w].todo = job[w].todo
    BY <1>0, <1>5, GoesOn DEF Has
  <2>2. /\ lock' = lock /\ job[w].pc = "unlink"
        /\ request' = request \/ request' = [request EXCEPT ![job[w].answer.to] = Absent]
    BY <1>5 DEF Unlink, UnlinkFails, At, files
  <2>3. \A i \in job[w].todo : request'[i] # Absent
    BY <1>0, <2>2 DEF HandOK, Holding
  <2> QED
    BY <1>0, <2>1, <2>2, <2>3 DEF HandOK, Holding
<1> QED
  BY <1>1, <1>2, <1>3, <1>4, <1>5, WhoActs

LEMMA LockStep ==
  ASSUME AnswersInv, [Next]_vars
  PROVE  LockOK'
<1>0. /\ AnswersTypeOK /\ JobsTyped
      /\ request \in [Ids -> Contents \cup {Absent}]
      /\ \A i \in Ids : request[i] # Absent => i \in asked
      /\ \A w \in Workers : HandOK(w) /\ job[w].todo \subseteq Ids
  BY DEF AnswersInv, AnswersTypeOK, JobsTyped, LockOK, HandOK, Jobs
<1>1. \A i \in Ids : request'[i] # Absent => i \in asked'
  <2>1. ASSUME NEW w \in Workers, Acts(w) PROVE \A i \in Ids : request'[i] # Absent => i \in asked'
    <3>1. request' = request \/ request' = [request EXCEPT ![job[w].answer.to] = Absent]
      BY <2>1, HelperFrames DEF Unlink
    <3>2. asked' = asked
      BY <2>1, HelperFrames
    <3> QED
      BY <1>0, <3>1, <3>2
  <2>2. ASSUME NEW k \in Ids, Post(k) PROVE \A i \in Ids : request'[i] # Absent => i \in asked'
    BY <1>0, <2>2 DEF Post
  <2>3. ASSUME NEW k \in Ids, Complete(k) PROVE \A i \in Ids : request'[i] # Absent => i \in asked'
    <3>1. request[k] # Absent /\ request' = [request EXCEPT ![k] = "valid"] /\ asked' = asked
      BY <2>3, AbsentApart DEF AbsentApart, Complete, Contents
    <3> QED
      BY <1>0, <3>1
  <2> QED
    BY <1>0, <2>1, <2>2, <2>3, OtherFrames DEF Next, Acts
<1>2. ASSUME NEW w \in Workers, Acts(w), Kept(w), NEW v \in Workers PROVE HandOK(v)'
  <2>1. CASE v = w
    BY <1>2, <2>1, HandStep
  <2>2. CASE v # w /\ job[v].pc \notin Holding \cup {"next"}
    BY <1>2, <2>2 DEF Kept, HandOK
  <2>3. CASE v # w /\ job[v].pc \in Holding \cup {"next"}
    <3>1. lock = v /\ lock # w /\ lock # Absent
      BY <1>0, <2>3, AbsentApart DEF AbsentApart, HandOK
    <3>2. lock' = lock
      <4>1. ~Finish(w)
        BY <1>0, <3>1 DEF Finish, At, HandOK
      <4>2. ~Acquire(w)
        BY <3>1 DEF Acquire
      <4>3. Crash(w) => lock' = lock
        BY <3>1 DEF Crash
      <4> QED
        BY <1>2, <4>1, <4>2, <4>3, HelperFrames
    <3>3. request' = request
      <4>1. ~Unlink(w)
        BY <1>0, <3>1 DEF Unlink, At, HandOK, Holding
      <4> QED
        BY <1>2, <4>1, HelperFrames
    <3> QED
      BY <1>0, <1>2, <2>3, <3>2, <3>3 DEF Kept, HandOK
  <2> QED
    BY <2>1, <2>2, <2>3
<1>3. ASSUME UNCHANGED vars \/ Tick \/ Break \/ Repair \/ \E i \in Ids : Post(i) \/ Complete(i) \/ Collect(i),
             NEW v \in Workers
      PROVE  HandOK(v)'
  <2>1. job' = job /\ lock' = lock
    BY <1>3, OtherFrames
  <2>2. \A i \in Ids : request[i] # Absent => request'[i] # Absent
    <3>1. ASSUME NEW k \in Ids, Post(k) \/ Complete(k) PROVE \A i \in Ids : request[i] # Absent => request'[i] # Absent
      BY <1>0, <3>1, AbsentApart DEF AbsentApart, Post, Complete, Contents
    <3> QED
      BY <1>3, <3>1, OtherFrames
  <2>3. job[v].pc \in Holding => job[v].answer.to \in Ids
    BY InHand
  <2> QED
    BY <1>0, <2>1, <2>2, <2>3 DEF HandOK
<1>4. \A v \in Workers : HandOK(v)'
  <2>1. CASE \E w \in Workers : Acts(w)
    BY <1>2, <2>1, JobsStep
  <2>2. CASE UNCHANGED vars \/ Tick \/ Break \/ Repair \/ \E i \in Ids : Post(i) \/ Complete(i) \/ Collect(i)
    BY <1>3, <2>2
  <2> QED
    BY <2>1, <2>2 DEF Next, Acts
<1> QED
  BY <1>1, <1>4 DEF LockOK, HandOK

--------------------------------------------------------------------------------
(* Every response was put there, in the place its request's id names *)

PlacedAt(s) ==
  response[s] # Absent => response[s].to \in answered /\ Stem(response[s].to) = s /\ published[s] # 0

LEMMA PlacedStep ==
  ASSUME AnswersInv, [Next]_vars
  PROVE  PlacedOK' /\ \A s \in Slots : published'[s] \in {published[s], published[s] + 1}
<1>0. /\ AnswersTypeOK /\ now \in 0..MaxNow
      /\ response \in [Slots -> Responses \cup {Absent}] /\ published \in [Slots -> Nat]
      /\ answered \subseteq asked /\ \A s \in Slots : PlacedAt(s)
  BY DEF AnswersInv, AnswersTypeOK, PlacedOK, PlacedAt
<1>1. asked \subseteq asked'
  <2>1. ASSUME NEW i \in Ids, Post(i) PROVE asked \subseteq asked'
    BY <2>1 DEF Post
  <2> QED
    BY <2>1, HelperFrames, OtherFrames DEF Next, Acts
<1>2. ASSUME NEW w \in Workers, Publish(w)
      PROVE  /\ answered' \subseteq asked' /\ \A s \in Slots : PlacedAt(s)'
             /\ \A s \in Slots : published'[s] \in {published[s], published[s] + 1}
  <2> DEFINE a == job[w].answer
             r == [to |-> a.to, ok |-> a.ok, born |-> now]
  <2>1. a \in Pending /\ a.to \in asked /\ a.to \in Ids
    BY <1>2, InHand DEF Publish, At, Holding
  <2>2. r \in Responses /\ r.to = a.to
    BY <1>0, <2>1 DEF Responses, Pending
  <2>3. /\ response' = [response EXCEPT ![Stem(a.to)] = r]
        /\ answered' = answered \cup {a.to}
        /\ published' = [published EXCEPT ![Stem(a.to)] = @ + 1]
    BY <1>2 DEF Publish
  <2> HIDE DEF r
  <2>4. \A s \in Slots : published'[s] \in {published[s], published[s] + 1} /\ (published[s] # 0 => published'[s] # 0)
    BY <1>0, <2>3
  <2>5. ASSUME NEW s \in Slots PROVE PlacedAt(s)'
    <3>1. CASE s = Stem(a.to)
      <4>1. response'[s] = r /\ published'[s] # 0
        BY <1>0, <2>3, <3>1
      <4> QED
        BY <2>2, <2>3, <3>1, <4>1 DEF PlacedAt
    <3>2. CASE s # Stem(a.to)
      BY <1>0, <2>3, <2>4, <3>2 DEF PlacedAt
    <3> QED
      BY <3>1, <3>2
  <2> QED
    BY <1>0, <1>1, <2>1, <2>3, <2>4, <2>5
<1>3. ASSUME \A w \in Workers : ~Publish(w)
      PROVE  /\ answered' \subseteq asked' /\ \A s \in Slots : PlacedAt(s)'
             /\ \A s \in Slots : published'[s] \in {published[s], published[s] + 1}
  <2>1. answered' = answered /\ published' = published
    BY <1>3, HelperFrames, OtherFrames DEF Next, Acts
  <2>2. \A s \in Slots : response'[s] \in {response[s], Absent}
    <3>1. ASSUME NEW w \in Workers, Reap(w) PROVE \A s \in Slots : response'[s] \in {response[s], Absent}
      BY <1>0, <3>1 DEF Reap
    <3>2. ASSUME NEW i \in Ids, Collect(i) PROVE \A s \in Slots : response'[s] \in {response[s], Absent}
      BY <1>0, <3>2 DEF Collect
    <3> QED
      BY <1>3, <3>1, <3>2, HelperFrames, OtherFrames DEF Next, Acts
  <2> QED
    BY <1>0, <1>1, <2>1, <2>2 DEF PlacedAt
<1> QED
  BY <1>2, <1>3 DEF PlacedOK, PlacedAt

--------------------------------------------------------------------------------
(* Attempts run out only after failures *)

LEMMA LitterStep ==
  ASSUME AnswersInv, [Next]_vars
  PROVE  LitterOnlyFromKills'
<1>0. litter \in Seq(0..MaxNow) /\ now \in 0..MaxNow /\ crashes \in Nat /\ Len(litter) <= crashes
  BY DEF AnswersInv, AnswersTypeOK, TriesOK, LitterOnlyFromKills
<1>1. ASSUME NEW w \in Workers, Crash(w) PROVE Len(litter') <= crashes'
  <2>1. crashes' = crashes + 1 /\ (litter' = Append(litter, now) \/ litter' = litter)
    BY <1>1 DEF Crash
  <2>2. Len(Append(litter, now)) = Len(litter) + 1 /\ Len(litter) \in Nat
    BY <1>0
  <2>3. Len(litter') <= Len(litter) + 1
    BY <2>1, <2>2
  <2> QED
    BY <1>0, <2>1, <2>2, <2>3
<1>2. ASSUME \A w \in Workers : ~Crash(w) PROVE litter' = litter /\ crashes' = crashes
  BY <1>2, HelperFrames, OtherFrames DEF Next, Acts
<1> QED
  BY <1>0, <1>1, <1>2 DEF LitterOnlyFromKills

(* The causes that excuse an answer that never came.                        *)
Broken == breaks > 0
Failed == errors > 0
FailedTwice == errors > 1

LEMMA CausesStay ==
  ASSUME AnswersInv, [Next]_vars
  PROVE  /\ Broken => Broken'
         /\ Failed => Failed'
         /\ FailedTwice => FailedTwice'
         /\ errors' # errors /\ Failed => FailedTwice'
         /\ errors' # errors => Failed'
         /\ answered \subseteq answered'
<1>0. /\ breaks \in Nat /\ errors \in Nat
      /\ breaks' \in {breaks, breaks + 1} /\ errors' \in {errors, errors + 1}
  BY CountsGrow DEF AnswersInv
<1>1. answered \subseteq answered'
  <2>1. ASSUME NEW w \in Workers, Publish(w) PROVE answered \subseteq answered'
    BY <2>1 DEF Publish
  <2> QED
    BY <2>1, HelperFrames, OtherFrames DEF Next, Acts
<1> QED
  BY <1>0, <1>1 DEF Broken, Failed, FailedTwice

Excuse(i) == i \in answered \/ Stem(i) = <<>> \/ Broken \/ FailedTwice

TriesAt(w) ==
  /\ job[w].pc \in {"write", "publish"} => job[w].tries # 0 /\ (job[w].tries = 1 => Broken \/ Failed)
  /\ job[w].pc = "unlink" => Excuse(job[w].answer.to)

LEMMA TriesRead ==
  ASSUME AnswersInv
  PROVE  /\ ~safe => Broken
         /\ \A w \in Workers : TriesAt(w)
         /\ \A i \in asked : request[i] = Absent => Excuse(i)
  BY DEF AnswersInv, TriesOK, TriesAt, LostOnlyByFaults, Excused, Excuse, Broken, Failed, FailedTwice

LEMMA ChanceStep ==
  ASSUME AnswersInv, [Next]_vars, NEW w \in Workers, Acts(w)
  PROVE  TriesAt(w)'
<1>0. /\ JobsTyped /\ now \in 0..MaxNow /\ TriesAt(w) /\ (~safe => Broken)
      /\ \A i \in Ids : Excuse(i) => Excuse(i)'
  BY TriesRead, CausesStay DEF AnswersInv, AnswersTypeOK, JobsTyped, Excuse
<1>1. CASE Idles(w)
  BY <1>1, Idling DEF TriesAt, Holding
<1>2. CASE Acquire(w) \/ Unlink(w) \/ UnlinkFails(w)
  <2>1. job'[w].pc = "next"
    BY <1>0, <1>2, Acquires, GoesOn DEF Has
  <2> QED
    BY <2>1 DEF TriesAt
<1>3. ASSUME NEW i \in Ids, Take(w, i) PROVE TriesAt(w)'
  <2> DEFINE a == [to |-> i, ok |-> FALSE]
  <2>1. a.to = i
    OBVIOUS
  <2>2. /\ job'[w].answer = a
        /\ job'[w].pc = "read" \/ (job'[w].pc = "unlink" /\ Stem(i) = <<>>)
    BY <1>0, <1>3, Takes DEF Has
  <2> HIDE DEF a
  <2> QED
    BY <2>1, <2>2 DEF TriesAt, Excuse
<1>4. CASE Steps(w)
  <2>0. /\ job[w].pc \in Holding /\ job[w].answer # Absent /\ job[w].answer.to \in Ids
        /\ job'[w].answer.to = job[w].answer.to /\ job[w].tries \in 0..3
    BY <1>0, <1>4, Serving, InHand DEF Serves, AnswersInv, LockOK, JobsTyped, Jobs
  <2>1. CASE ReadRequest(w) \/ RereadRequest(w)
    BY <1>0, <2>0, <2>1, Reads DEF TriesAt
  <2>2. CASE WriteTemp(w)
    <3>1. job'[w].pc = "publish" /\ job'[w].tries = job[w].tries /\ job[w].pc = "write"
      BY <1>0, <2>0, <2>2, Writes DEF WriteTemp, At
    <3> QED
      BY <1>0, <3>1, CausesStay DEF TriesAt
  <2>3. CASE Publish(w)
    <3>1. job'[w].pc = "unlink" /\ job[w].answer.to \in answered'
      BY <1>0, <2>0, <2>3, Writes DEF Publish
    <3> QED
      BY <2>0, <3>1 DEF TriesAt, Excuse
  <2>4. CASE WriteFails(w)
    <3>1. job[w].tries # 0 /\ (job[w].tries = 1 => Broken \/ Failed)
      BY <1>0, <2>4 DEF WriteFails, TriesAt
    <3>2. \/ job[w].tries = 1 /\ job'[w].pc = "unlink"
          \/ job'[w].pc = "write" /\ job'[w].tries \in {1, 2}
      BY <1>0, <2>0, <2>4, <3>1, Fails
    <3>3. ~safe \/ errors' # errors
      BY <2>4 DEF WriteFails, Fault, AnswersInv, AnswersTypeOK
    <3>4. Broken' \/ Failed'
      BY <1>0, <3>3, CausesStay
    <3>5. job[w].tries = 1 => Broken' \/ FailedTwice'
      BY <1>0, <3>1, <3>3, CausesStay
    <3> QED
      BY <2>0, <3>2, <3>4, <3>5 DEF TriesAt, Excuse
  <2> QED
    BY <1>4, <2>1, <2>2, <2>3, <2>4 DEF Steps
<1> QED
  BY <1>1, <1>2, <1>3, <1>4, WhoActs

LEMMA TriesStep ==
  ASSUME AnswersInv, [Next]_vars
  PROVE  TriesOK'
<1>0. /\ AnswersTypeOK /\ (~safe => Broken) /\ asked \subseteq Ids
      /\ \A w \in Workers : TriesAt(w)
      /\ \A i \in asked : request[i] = Absent => Excuse(i)
      /\ \A i \in Ids : Excuse(i) => Excuse(i)'
      /\ request \in [Ids -> Contents \cup {Absent}]
  BY TriesRead, CausesStay DEF AnswersInv, AnswersTypeOK, Excuse
<1>1. ~safe' => Broken'
  <2>1. Break => Broken'
    BY <1>0, CountsGrow DEF Break, Broken
  <2>2. ~safe' => Break \/ safe' = safe
    BY HelperFrames, OtherFrames DEF Next, Acts, Repair
  <2>3. safe' = safe /\ ~safe' => ~safe
    OBVIOUS
  <2>4. Broken => Broken'
    BY CausesStay
  <2> QED
    BY <1>0, <2>1, <2>2, <2>3, <2>4
<1>2. ASSUME NEW v \in Workers PROVE TriesAt(v)'
  <2>1. CASE Acts(v)
    BY <2>1, ChanceStep
  <2>2. CASE ~Acts(v)
    <3>1. job'[v] = job[v]
      BY <2>2, JobsStep DEF Kept
    <3>2. job[v].pc = "unlink" => job[v].answer.to \in Ids
      BY InHand DEF Holding
    <3> QED
      BY <1>0, <3>1, <3>2, CausesStay DEF TriesAt
  <2> QED
    BY <2>1, <2>2
<1>3. ASSUME NEW i \in asked', request'[i] = Absent PROVE Excuse(i)'
  <2>1. ASSUME NEW w \in Workers, Unlink(w) PROVE Excuse(i)'
    <3>1. job[w].answer.to \in Ids /\ Excuse(job[w].answer.to)
      BY <1>0, <2>1, InHand DEF Unlink, At, Holding, TriesAt
    <3>2. asked' = asked /\ request' = [request EXCEPT ![job[w].answer.to] = Absent]
      BY <2>1 DEF Unlink
    <3>3. CASE i = job[w].answer.to
      BY <1>0, <3>1, <3>3
    <3>4. CASE i # job[w].answer.to
      BY <1>0, <1>3, <3>2, <3>4
    <3> QED
      BY <3>3, <3>4
  <2>2. ASSUME NEW k \in Ids, Post(k) PROVE Excuse(i)'
    <3>1. i # k
      BY <1>0, <1>3, <2>2, AbsentApart DEF AbsentApart, Post
    <3> QED
      BY <1>0, <1>3, <2>2, <3>1 DEF Post
  <2>3. ASSUME NEW k \in Ids, Complete(k) PROVE Excuse(i)'
    <3>1. i # k /\ asked' = asked
      BY <1>0, <1>3, <2>3, AbsentApart DEF AbsentApart, Complete, Contents
    <3> QED
      BY <1>0, <1>3, <2>3, <3>1 DEF Complete
  <2>4. CASE request' = request /\ asked' = asked
    BY <1>0, <1>3, <2>4
  <2> QED
    BY <2>1, <2>2, <2>3, <2>4, HelperFrames, OtherFrames DEF Next, Acts
<1>5. LostOnlyByFaults'
  BY <1>3 DEF LostOnlyByFaults, Excuse, Broken, FailedTwice
<1>6. (~safe => breaks > 0)'
  BY <1>1 DEF Broken
<1>7. ASSUME NEW v \in Workers
      PROVE  /\ job'[v].pc \in {"write", "publish"} =>
                   job'[v].tries # 0 /\ (job'[v].tries = 1 => breaks' > 0 \/ errors' > 0)
             /\ job'[v].pc = "unlink" => Excused(job[v].answer.to)'
  BY <1>2 DEF TriesAt, Excuse, Excused, Broken, Failed, FailedTwice
<1> QED
  BY <1>5, <1>6, <1>7, LitterStep DEF TriesOK

--------------------------------------------------------------------------------
(* What a reaper has passed over is young, what it is about to remove is old *)

Early(w) == job[w].clock <= now
Old(w, s) == job[w].clock > response[s].born + TTL
Again(s) == published[s] > 1

AgeAt(w) ==
  /\ Early(w)
  /\ job[w].pc \in {"reap", "lock"} => job[w].slot = Absent
  /\ job[w].pc = "lock" => job[w].rest = {}
  /\ job[w].pc = "reaping" =>
        /\ job[w].slot \in Slots /\ published[job[w].slot] # 0
        /\ response[job[w].slot] # Absent => Old(w, job[w].slot) \/ Again(job[w].slot)
  /\ job[w].pc \in Reaping /\ ~Failed =>
        \A s \in Slots : response[s] # Absent /\ s \notin job[w].rest \cup {job[w].slot} => ~Old(w, s)

AllAges == \A w \in Workers : AgeAt(w)

LEMMA AgeRead == AnswersTypeOK => (AllAges <=> AgeOK)
<1> SUFFICES ASSUME AnswersTypeOK PROVE AllAges <=> AgeOK
  OBVIOUS
<1>1. TTL \in Nat /\ errors \in Nat /\ \A w \in Workers : job[w].clock \in Nat
  BY AnswersConstants DEF AnswersConstants, AnswersTypeOK, Jobs
<1>2. \A s \in Slots : response[s] # Absent => response[s].born \in Nat
  BY DEF AnswersTypeOK, Responses
<1>3. \A w \in Workers, s \in Slots : response[s] # Absent =>
         (~Old(w, s) <=> job[w].clock <= response[s].born + TTL)
  <2>1. \A a, b, c \in Nat : ~(a > b + c) <=> a <= b + c
    OBVIOUS
  <2> QED
    BY <1>1, <1>2, <2>1 DEF Old
<1>4. ~Failed <=> errors = 0
  BY <1>1 DEF Failed
<1>5. \A w \in Workers, s \in Slots : Old(w, s) <=> job[w].clock > response[s].born + TTL
  BY DEF Old
<1>6. \A s \in Slots : Again(s) <=> published[s] > 1
  BY DEF Again
<1>7. \A w \in Workers : Early(w) <=> job[w].clock <= now
  BY DEF Early
<1>8. ASSUME NEW w \in Workers
      PROVE  AgeAt(w) <=>
               /\ job[w].clock <= now
               /\ job[w].pc \in {"reap", "lock"} => job[w].slot = Absent
               /\ job[w].pc = "lock" => job[w].rest = {}
               /\ job[w].pc = "reaping" =>
                     /\ job[w].slot \in Slots /\ published[job[w].slot] # 0
                     /\ response[job[w].slot] # Absent =>
                           job[w].clock > response[job[w].slot].born + TTL \/ published[job[w].slot] > 1
               /\ job[w].pc \in Reaping /\ errors = 0 =>
                     \A s \in Slots : response[s] # Absent /\ s \notin job[w].rest \cup {job[w].slot} =>
                        job[w].clock <= response[s].born + TTL
  BY <1>3, <1>4, <1>5, <1>6, <1>7 DEF AgeAt
<1> QED
  BY <1>8 DEF AgeOK, AllAges

LEMMA YoungWhenPut ==
  ASSUME AnswersInv, [Next]_vars, NEW v \in Workers, AgeAt(v), job'[v].clock = job[v].clock, NEW s \in Slots
  PROVE  /\ \/ response'[s] = Absent
            \/ response'[s] = response[s] /\ (Old(v, s)' <=> Old(v, s))
            \/ ~Old(v, s)' /\ (published[s] # 0 => Again(s)')
         /\ published[s] # 0 => published'[s] # 0
         /\ Again(s) => Again(s)'
<1>0. /\ now \in Nat /\ now' \in {now, now + 1} /\ TTL \in Nat /\ job[v].clock \in Nat
      /\ response \in [Slots -> Responses \cup {Absent}] /\ published[s] \in Nat
      /\ published'[s] \in {published[s], published[s] + 1} /\ job[v].clock <= now
  BY CountsGrow, PlacedStep, AnswersConstants DEF AnswersInv, AnswersTypeOK, AnswersConstants, AgeAt, Early, Jobs
<1>2. (published[s] # 0 => published'[s] # 0) /\ (Again(s) => Again(s)')
  BY <1>0 DEF Again
<1>3. ASSUME NEW w \in Workers, Publish(w), response'[s] # response[s]
      PROVE  ~Old(v, s)' /\ (published[s] # 0 => Again(s)')
  <2> DEFINE a == job[w].answer
             r == [to |-> a.to, ok |-> a.ok, born |-> now]
  <2>1. /\ response' = [response EXCEPT ![Stem(a.to)] = r]
        /\ published' = [published EXCEPT ![Stem(a.to)] = @ + 1]
    BY <1>3 DEF Publish
  <2>2. r.born = now
    OBVIOUS
  <2> HIDE DEF r
  <2>3. s = Stem(a.to)
    BY <1>0, <1>3, <2>1
  <2>4. response'[s] = r /\ published'[s] = published[s] + 1
    BY <1>0, <2>1, <2>3 DEF AnswersInv, AnswersTypeOK
  <2>5. job'[v].clock <= response'[s].born + TTL /\ response'[s].born \in Nat
    BY <1>0, <2>2, <2>4
  <2>6. ~(job'[v].clock > response'[s].born + TTL)
    <3> DEFINE c == job'[v].clock
               b == response'[s].born
    <3>1. c \in Nat /\ b \in Nat /\ TTL \in Nat /\ c <= b + TTL
      BY <1>0, <2>5
    <3> HIDE DEF c, b
    <3>2. ~(c > b + TTL)
      BY <3>1
    <3> QED
      BY <3>2 DEF c, b
  <2>7. published[s] # 0 => published'[s] > 1
    BY <1>0, <2>4
  <2> QED
    BY <2>6, <2>7 DEF Old, Again
<1>4. ASSUME \A w \in Workers : ~Publish(w) PROVE response'[s] \in {response[s], Absent}
  <2>1. ASSUME NEW w \in Workers, Reap(w) PROVE response'[s] \in {response[s], Absent}
    BY <1>0, <2>1 DEF Reap
  <2>2. ASSUME NEW i \in Ids, Collect(i) PROVE response'[s] \in {response[s], Absent}
    BY <1>0, <2>2 DEF Collect
  <2> QED
    BY <1>4, <2>1, <2>2, HelperFrames, OtherFrames DEF Next, Acts
<1>5. response'[s] = response[s] => (Old(v, s)' <=> Old(v, s))
  <2>1. response'[s] = response[s] => response'[s].born = response[s].born
    OBVIOUS
  <2> QED
    BY <2>1 DEF Old
<1> QED
  BY <1>2, <1>3, <1>4, <1>5

(* A helper whose reaper goes on as before keeps what it relies on.         *)
LEMMA AgeKept ==
  ASSUME AnswersInv, [Next]_vars, NEW v \in Workers, AgeAt(v), job'[v] = job[v]
  PROVE  AgeAt(v)'
<1>0. Failed => Failed'
  BY CausesStay
<1>1. /\ Early(v)'
      /\ \A s \in Slots :
            /\ \/ response'[s] = Absent
               \/ response'[s] = response[s] /\ (Old(v, s)' <=> Old(v, s))
               \/ ~Old(v, s)' /\ (published[s] # 0 => Again(s)')
            /\ published[s] # 0 => published'[s] # 0
            /\ Again(s) => Again(s)'
  <2>1. now \in Nat /\ now' \in {now, now + 1} /\ job[v].clock \in Nat /\ job[v].clock <= now
    BY CountsGrow DEF AnswersInv, AnswersTypeOK, AgeAt, Early, Jobs
  <2>2. Early(v)'
    BY <2>1 DEF Early
  <2> QED
    BY <2>2, YoungWhenPut
<1> QED
  BY <1>0, <1>1 DEF AgeAt

LEMMA ReaperStep ==
  ASSUME AnswersInv, [Next]_vars, NEW w \in Workers, AgeAt(w), Acts(w)
  PROVE  AgeAt(w)'
<1>0. /\ JobsTyped /\ now \in Nat /\ now \in 0..MaxNow /\ now' \in {now, now + 1} /\ job[w].clock \in Nat
      /\ response \in [Slots -> Responses \cup {Absent}] /\ published \in [Slots -> Nat]
      /\ \A s \in Slots : response[s] # Absent => published[s] # 0
      /\ TTL \in Nat /\ errors \in Nat /\ job[w].clock <= now
  BY CountsGrow, AnswersConstants
  DEF AnswersInv, AnswersTypeOK, JobsTyped, AnswersConstants, AgeAt, Early, Jobs, PlacedOK
<1>1. job'[w].clock \in {job[w].clock, now, 0} => Early(w)'
  BY <1>0 DEF Early
<1>2. CASE Start(w)
  <2>1. /\ Has(job'[w], "reap", now, Present, Absent, {}, Absent)
        /\ response' = response
    BY <1>0, <1>2, Starts DEF Start, files
  <2> QED
    BY <1>1, <2>1 DEF Has, AgeAt, Present, Reaping
<1>3. ASSUME NEW s \in Slots, Judge(w, s) PROVE AgeAt(w)'
  <2>0. /\ job[w].pc = "reap" /\ response' = response /\ published' = published /\ (Failed' <=> Failed)
    BY <1>3 DEF Judge, At, files, ghosts, faults, Failed
  <2>1. Stale(w, s) <=> response[s] # Absent /\ Old(w, s)
    BY DEF Stale, Old
  <2>2. \A t \in Slots : job'[w].clock = job[w].clock => (Old(w, t)' <=> Old(w, t))
    BY <2>0 DEF Old
  <2>3. CASE Stale(w, s)
    <3>1. Has(job'[w], "reaping", job[w].clock, job[w].rest \ {s}, s, job[w].todo, job[w].answer)
      BY <1>0, <1>3, <2>3, Judges
    <3>2. published'[s] # 0 /\ Old(w, s)'
      BY <1>0, <2>0, <2>1, <2>2, <2>3, <3>1 DEF Has
    <3> QED
      BY <1>0, <1>1, <2>0, <2>2, <3>1, <3>2, AbsentApart DEF Has, AgeAt, Reaping, AbsentApart
  <2>4. CASE ~Stale(w, s)
    <3>1. Has(job'[w], "reap", job[w].clock, job[w].rest \ {s}, job[w].slot, job[w].todo, job[w].answer)
      BY <1>0, <1>3, <2>4, Judges
    <3> QED
      BY <1>0, <1>1, <2>0, <2>1, <2>2, <2>4, <3>1 DEF Has, AgeAt, Reaping
  <2> QED
    BY <2>3, <2>4
<1>4. CASE Reap(w)
  <2>1. /\ job[w].pc = "reaping" /\ response' = [response EXCEPT ![job[w].slot] = Absent]
        /\ (Failed' <=> Failed) /\ job[w].slot \in Slots
    BY <1>4 DEF Reap, At, faults, Failed, AgeAt
  <2>2. Has(job'[w], "reap", job[w].clock, job[w].rest, Absent, job[w].todo, job[w].answer)
    BY <1>0, <1>4, Reaps
  <2>3. \A t \in Slots : t # job[w].slot => response'[t] = response[t] /\ (Old(w, t)' <=> Old(w, t))
    BY <1>0, <2>1, <2>2 DEF Old, Has
  <2>4. response'[job[w].slot] = Absent
    BY <1>0, <2>1
  <2> QED
    BY <1>1, <2>1, <2>2, <2>3, <2>4 DEF Has, AgeAt, Reaping
<1>5. CASE ReapFails(w)
  <2>1. Failed'
    BY <1>0, <1>5 DEF ReapFails, Fault, Failed
  <2>2. Has(job'[w], "reap", job[w].clock, job[w].rest, Absent, job[w].todo, job[w].answer)
    BY <1>0, <1>5, Reaps
  <2> QED
    BY <1>1, <2>1, <2>2 DEF Has, AgeAt, Reaping
<1>6. CASE ReapDone(w)
  <2>1. /\ job[w].pc = "reap" /\ job[w].rest = {} /\ response' = response /\ (Failed' <=> Failed)
        /\ Become(w, [job[w] EXCEPT !.pc = "lock"])
    BY <1>6 DEF ReapDone, At, files, faults, Failed
  <2>2. Has(job'[w], "lock", job[w].clock, job[w].rest, job[w].slot, job[w].todo, job[w].answer)
    BY <1>0, <2>1, Moves DEF PCs
  <2>3. \A t \in Slots : Old(w, t)' <=> Old(w, t)
    BY <2>1, <2>2 DEF Old, Has
  <2> QED
    BY <1>1, <2>1, <2>2, <2>3 DEF Has, AgeAt, Reaping
<1>7. CASE LockTimeout(w) \/ Finish(w) \/ Crash(w) \/ Acquire(w) \/ Unlink(w) \/ UnlinkFails(w)
  <2>1. job'[w].pc \in {"off", "next"} /\ job'[w].clock = 0
    BY <1>0, <1>7, Stops, Acquires, GoesOn DEF LockTimeout, Finish, Crash, Has
  <2> QED
    BY <1>1, <2>1 DEF AgeAt, Reaping
<1>8. CASE \E i \in Ids : Take(w, i)
  <2>1. job'[w].pc \in {"unlink", "read"} /\ job'[w].clock = job[w].clock
    BY <1>0, <1>8, Takes DEF Has
  <2> QED
    BY <1>1, <2>1 DEF AgeAt, Reaping
<1>9. CASE Steps(w)
  <2>1. job'[w].pc \in Holding /\ job'[w].clock = job[w].clock
    BY <1>9, Serving DEF Serves
  <2> QED
    BY <1>1, <2>1 DEF AgeAt, Reaping, Holding
<1> QED
  BY <1>2, <1>3, <1>4, <1>5, <1>6, <1>7, <1>8, <1>9, WhoActs DEF Idles

LEMMA AgeStep ==
  ASSUME AnswersInv, [Next]_vars
  PROVE  AgeOK'
<1>1. ASSUME NEW v \in Workers PROVE AgeAt(v)'
  <2>1. AgeAt(v)
    BY AgeRead DEF AnswersInv, AllAges
  <2>2. CASE Acts(v)
    BY <2>1, <2>2, ReaperStep
  <2>3. CASE ~Acts(v)
    <3>1. job'[v] = job[v]
      BY <2>3, JobsStep DEF Kept
    <3> QED
      BY <2>1, <3>1, AgeKept
  <2> QED
    BY <2>2, <2>3
<1>2. AnswersTypeOK' /\ AllAges'
  BY <1>1, TypeStep DEF AllAges
<1> QED
  BY <1>2, AgeRead, PTL

--------------------------------------------------------------------------------
(* A request is answered once, but for faults *)

Faulty == crashes # 0 \/ errors # 0
Closing(w, i) == job[w].pc = "unlink" /\ job[w].answer.to = i

LEMMA FaultyStays ==
  ASSUME AnswersInv, [Next]_vars
  PROVE  /\ Faulty => Faulty'
         /\ \A w \in Workers : Crash(w) \/ UnlinkFails(w) => Faulty'
<1>0. /\ crashes \in Nat /\ errors \in Nat
      /\ crashes' \in {crashes, crashes + 1} /\ errors' \in {errors, errors + 1}
  BY CountsGrow DEF AnswersInv
<1>1. Faulty => Faulty'
  BY <1>0 DEF Faulty
<1>2. ASSUME NEW w \in Workers, Crash(w) \/ UnlinkFails(w) PROVE Faulty'
  <2>1. crashes' = crashes + 1 \/ errors' = errors + 1
    BY <1>2 DEF Crash, UnlinkFails, Fault
  <2> QED
    BY <1>0, <2>1 DEF Faulty
<1> QED
  BY <1>1, <1>2

LEMMA OnceStep ==
  ASSUME AnswersInv, [Next]_vars
  PROVE  OnceOK'
<1>0. /\ request \in [Ids -> Contents \cup {Absent}] /\ answered \subseteq Ids
      /\ answered \subseteq asked /\ asked \subseteq Ids
      /\ \A i \in answered : request[i] # Absent => Faulty \/ \E w \in Workers : Closing(w, i)
  BY DEF AnswersInv, AnswersTypeOK, PlacedOK, OnceOK, Faulty, Closing, At
<1>1. ASSUME NEW i \in answered', request'[i] # Absent, i \notin answered
      PROVE  \E w \in Workers : Closing(w, i)'
  <2>1. PICK w \in Workers : Publish(w)
    BY <1>1, HelperFrames, OtherFrames DEF Next, Acts
  <2>2. i = job[w].answer.to
    BY <1>1, <2>1 DEF Publish
  <2>3. /\ Steps(w) /\ JobsTyped /\ job[w].answer # Absent
    BY <2>1 DEF Steps, AnswersInv, AnswersTypeOK, JobsTyped, LockOK, Publish, At, Holding
  <2>4. job'[w].pc = "unlink" /\ job'[w].answer.to = i
    BY <2>1, <2>2, <2>3, Writes DEF Serves
  <2> QED
    BY <2>4 DEF Closing
<1>2. ASSUME NEW i \in answered, request[i] = Absent PROVE request'[i] = Absent
  <2>1. \A k \in Ids : ~Post(k) \/ i # k
    BY <1>0 DEF Post
  <2>2. ASSUME NEW k \in Ids, Post(k) \/ Complete(k) PROVE request'[i] = Absent
    <3>1. i # k
      BY <1>2, <2>1, <2>2, AbsentApart DEF AbsentApart, Complete, Contents
    <3> QED
      BY <1>0, <1>2, <2>2, <3>1 DEF Post, Complete
  <2>3. ASSUME NEW w \in Workers, Unlink(w) PROVE request'[i] = Absent
    BY <1>0, <1>2, <2>3 DEF Unlink
  <2> QED
    BY <1>2, <2>2, <2>3, HelperFrames, OtherFrames DEF Next, Acts
<1>3. ASSUME NEW i \in answered, request[i] # Absent, request'[i] # Absent
      PROVE  Faulty' \/ \E w \in Workers : Closing(w, i)'
  <2>1. CASE Faulty
    BY <2>1, FaultyStays
  <2>2. ASSUME NEW w \in Workers, Closing(w, i) PROVE Faulty' \/ Closing(w, i)'
    <3>1. CASE ~Acts(w)
      <4>1. job'[w] = job[w]
        BY <3>1, JobsStep DEF Kept
      <4> QED
        BY <2>2, <4>1 DEF Closing
    <3>2. CASE Acts(w)
      <4>1. Unlink(w) \/ UnlinkFails(w) \/ Crash(w)
        BY <2>2, <3>2 DEF Closing, Acts, ReaperNext, DrainNext, Start, Judge, Reap, ReapFails, ReapDone,
           Acquire, LockTimeout, Take, Finish, ReadRequest, RereadRequest, WriteTemp, Publish, WriteFails, At
      <4>2. ~Unlink(w)
        BY <1>0, <1>3, <2>2 DEF Unlink, Closing
      <4> QED
        BY <4>1, <4>2, FaultyStays
    <3> QED
      BY <3>1, <3>2
  <2> QED
    BY <1>0, <1>3, <2>1, <2>2
<1>4. ASSUME NEW i \in answered', request'[i] # Absent
      PROVE  Faulty' \/ \E w \in Workers : Closing(w, i)'
  BY <1>1, <1>2, <1>3, <1>4
<1> QED
  BY <1>4 DEF OnceOK, Faulty, Closing, At

--------------------------------------------------------------------------------
(* The theorems *)

LEMMA AnswersInvInit ==
  ASSUME Init
  PROVE  AnswersInv
<1> USE DEF Init
<1>1. 0 \in Nat /\ 0 \in 0..MaxNow /\ 0 \in 0..MaxCrashes /\ 0 \in 0..MaxErrors /\ 0 \in 0..MaxBreaks
  BY AnswersConstants DEF AnswersConstants
<1>2. \A w \in Workers : job[w] = Off
  OBVIOUS
<1>3. Off.pc = "off" /\ Off.clock = 0
  BY DEF Off
<1>4. AnswersTypeOK
  <2>1. job \in [Workers -> Jobs]
    BY OffTyped
  <2>2. litter \in Seq(0..MaxNow)
    OBVIOUS
  <2> QED
    BY <1>1, <2>1, <2>2 DEF AnswersTypeOK
<1>5. LockOK
  BY <1>2, <1>3 DEF LockOK, Holding
<1>6. PlacedOK /\ OnceOK
  BY DEF PlacedOK, OnceOK
<1>7. AgeOK
  BY <1>2, <1>3 DEF AgeOK, Reaping
<1>8. TriesOK
  <2>1. Len(litter) <= crashes
    OBVIOUS
  <2>2. \A w \in Workers : job[w].pc \notin {"write", "publish", "unlink"}
    BY <1>2, <1>3
  <2> QED
    BY <2>1, <2>2 DEF TriesOK, LostOnlyByFaults, LitterOnlyFromKills
<1> QED
  BY <1>4, <1>5, <1>6, <1>7, <1>8 DEF AnswersInv

LEMMA AnswersInvStep ==
  ASSUME AnswersInv, [Next]_vars
  PROVE  AnswersInv'
  BY TypeStep, LockStep, PlacedStep, AgeStep, TriesStep, OnceStep DEF AnswersInv

(* The inductive invariant.                                                 *)
THEOREM AnswersInvHolds == Spec => []AnswersInv
  BY AnswersInvInit, AnswersInvStep, PTL DEF Spec

(* Type correctness of files, local variables and ghosts.                   *)
THEOREM AnswersTypeCorrect == Spec => []AnswersTypeOK
<1>1. AnswersInv => AnswersTypeOK
  BY DEF AnswersInv
<1> QED
  BY <1>1, AnswersInvHolds, PTL

(* However many helpers are killed, no other temporary file is left.        *)
THEOREM LitterBounded == Spec => []LitterOnlyFromKills
<1>1. AnswersInv => LitterOnlyFromKills
  BY DEF AnswersInv, TriesOK
<1> QED
  BY <1>1, AnswersInvHolds, PTL

(* A request goes unanswered only for a cause that its client could see.    *)
THEOREM AnsweredOrExcused == Spec => []LostOnlyByFaults
<1>1. AnswersInv => LostOnlyByFaults
  BY DEF AnswersInv, TriesOK
<1> QED
  BY <1>1, AnswersInvHolds, PTL

(* A reaper that meets no failure does its work, whatever runs beside it.   *)
THEOREM ReaperDoesItsWork == Spec => []ReapLeavesNoneOld
<1>1. AnswersInv => ReapLeavesNoneOld
  <2> SUFFICES ASSUME AnswersInv, NEW w \in Workers, job[w].pc = "lock", errors = 0,
                      NEW s \in Slots, response[s] # Absent
               PROVE  job[w].clock <= response[s].born + TTL
    BY DEF ReapLeavesNoneOld, At
  <2>1. job[w].rest = {} /\ job[w].slot = Absent
    BY DEF AnswersInv, AgeOK
  <2>2. s \notin job[w].rest \cup {job[w].slot}
    BY <2>1, AbsentApart DEF AbsentApart
  <2> QED
    BY <2>2 DEF AnswersInv, AgeOK, Reaping
<1> QED
  BY <1>1, AnswersInvHolds, PTL

(* A reaper costs a reader what was old, or what replaced it.               *)
THEOREM OnlyStaleGoes == Spec => ReapedOnlyStale
<1>1. ASSUME AnswersInv, [Next]_vars, NEW w \in Workers, NEW s \in Slots,
             At(w, "reaping"), job[w].slot = s, response[s] # Absent
      PROVE  job[w].clock > response[s].born + TTL \/ published[s] > 1
  BY <1>1 DEF AnswersInv, AgeOK, At
<1>2. AnswersInv /\ [Next]_vars =>
        [\A w \in Workers, s \in Slots :
          /\ At(w, "reaping") /\ job[w].slot = s
          /\ response[s] # Absent /\ response'[s] = Absent
          /\ job'[w] # job[w]
          => job[w].clock > response[s].born + TTL \/ published[s] > 1]_vars
  BY <1>1
<1> QED
  BY <1>2, AnswersInvHolds, PTL DEF ReapedOnlyStale, Spec

(* An unread response is replaced after a fault, or by a colliding name.    *)
THEOREM OverwritesExplained == Spec => OverwritesHaveACause
<1> DEFINE Explained(s) ==
             /\ response[s] # Absent /\ response'[s] # Absent
             /\ published'[s] # published[s]
             => \/ response'[s].to = response[s].to /\ crashes + errors > 0
                \/ ~Plain(response[s].to) \/ ~Plain(response'[s].to)
<1>1. ASSUME AnswersInv, [Next]_vars, NEW s \in Slots, response[s] # Absent, published'[s] # published[s]
      PROVE  \/ response'[s].to = response[s].to /\ crashes + errors > 0
             \/ ~Plain(response[s].to) \/ ~Plain(response'[s].to)
  <2>0. /\ response \in [Slots -> Responses \cup {Absent}] /\ published \in [Slots -> Nat]
        /\ crashes \in Nat /\ errors \in Nat
        /\ response[s].to \in answered /\ Stem(response[s].to) = s
    BY <1>1, CountsGrow DEF AnswersInv, AnswersTypeOK, PlacedOK
  <2>1. PICK w \in Workers : Publish(w)
    BY <1>1, HelperFrames, OtherFrames DEF Next, Acts
  <2> DEFINE a == job[w].answer
             r == [to |-> a.to, ok |-> a.ok, born |-> now]
  <2>2. /\ response' = [response EXCEPT ![Stem(a.to)] = r]
        /\ published' = [published EXCEPT ![Stem(a.to)] = @ + 1]
        /\ r.to = a.to
    BY <2>1 DEF Publish
  <2>3. /\ job[w].pc = "publish" /\ a.to \in Ids /\ request[a.to] # Absent /\ lock = w
    BY <1>1, <2>1, InHand DEF Publish, At, Holding
  <2> HIDE DEF r, a
  <2>4. s = Stem(a.to)
    BY <1>1, <2>0, <2>2
  <2>5. response'[s].to = a.to
    BY <1>1, <2>0, <2>2, <2>4
  <2>6. CASE response[s].to # a.to
    <3>1. ~Plain(response[s].to) \/ ~Plain(a.to)
      BY <2>0, <2>4, <2>6 DEF Plain
    <3> QED
      BY <2>5, <3>1
  <2>7. CASE response[s].to = a.to
    <3>1. ASSUME NEW v \in Workers, At(v, "unlink"), job[v].answer.to = a.to PROVE FALSE
      <4>1. lock = v
        BY <1>1, <3>1, InHand DEF At, Holding
      <4> QED
        BY <2>3, <3>1, <4>1 DEF At
    <3>2. crashes # 0 \/ errors # 0
      BY <1>1, <2>0, <2>3, <2>7, <3>1 DEF AnswersInv, OnceOK
    <3>3. crashes + errors > 0
      BY <2>0, <3>2
    <3> QED
      BY <2>5, <2>7, <3>3
  <2> QED
    BY <2>6, <2>7
<1>2. AnswersInv /\ [Next]_vars => [\A s \in Slots : Explained(s)]_vars
  BY <1>1
<1> HIDE DEF Explained
<1>3. Spec => [][\A s \in Slots : Explained(s)]_vars
  BY <1>2, AnswersInvHolds, PTL DEF Spec
<1> QED
  BY <1>3 DEF OverwritesHaveACause, Explained

--------------------------------------------------------------------------------
(* The plumbing as the mailbox sees it: what is in hand *)

LEMMA HandIs ==
  ASSUME AnswersInv, NEW w \in Workers, job[w].pc \in Holding
  PROVE  /\ lock = w /\ Served = job[w].answer.to /\ Served \in Ids /\ Served \in There
         /\ Closed <=> job[w].pc = "unlink"
<1>1. lock = w /\ w # Absent /\ job[w].answer.to \in There
  BY InHand, AbsentApart DEF AbsentApart, There
<1> QED
  BY <1>1 DEF Served, Closed, There

LEMMA HandNext ==
  ASSUME NEW w \in Workers, lock' = w, job'[w].pc \in Holding
  PROVE  Served' = job'[w].answer.to /\ (Closed' <=> job'[w].pc = "unlink")
<1>1. w # Absent
  BY AbsentApart DEF AbsentApart
<1> QED
  BY <1>1 DEF Served, Closed

LEMMA HandEmpty ==
  ASSUME lock = Absent \/ job[lock].pc \notin Holding
  PROVE  Served = Absent /\ ~Closed
<1>1. "unlink" \in Holding
  BY DEF Holding
<1> QED
  BY <1>1 DEF Served, Closed

LEMMA HandEmptied ==
  ASSUME lock' = Absent \/ job'[lock'].pc \notin Holding
  PROVE  Served' = Absent /\ ~Closed'
<1>1. "unlink" \in Holding
  BY DEF Holding
<1> QED
  BY <1>1 DEF Served, Closed

(* a helper that has nothing in hand, before and after                      *)
LEMMA HandAside ==
  ASSUME lock \in Workers \cup {Absent}, NEW w \in Workers, Kept(w),
         job[w].pc \notin Holding, job'[w].pc \notin Holding,
         lock' = lock \/ (lock = Absent /\ lock' = w) \/ (lock = w /\ lock' = Absent)
  PROVE  Served' = Served /\ (Closed' <=> Closed)
<1>1. CASE lock \in Workers \ {w}
  <2>1. lock' = lock /\ job'[lock] = job[lock]
    BY <1>1, AbsentApart DEF AbsentApart, Kept
  <2> QED
    BY <2>1 DEF Served, Closed
<1>2. CASE lock \in {w, Absent}
  <2>1. lock' \in {w, Absent}
    BY <1>2
  <2> QED
    BY <1>2, <2>1, HandEmpty, HandEmptied
<1> QED
  BY <1>1, <1>2

(* what the mailbox does not see                                            *)
LEMMA Unseen ==
  /\ request' = request => There' = There
  /\ response' = response => Replies' = Replies
  BY DEF There, Replies

Cost == crashes + errors + breaks

LEMMA Stutters ==
  ASSUME UNCHANGED <<asked, There, Replies, Cost>>, Served' = Served, Closed' <=> Closed
  PROVE  UNCHANGED Box!box
<1>1. Closed' = Closed
  BY DEF Closed
<1> QED
  BY <1>1 DEF Box!box, Cost

LEMMA Faulted ==
  ASSUME UNCHANGED <<asked, There, Replies>>, Cost' = Cost + 1,
         Served' = Served, Closed' <=> Closed
  PROVE  Box!Next
<1>1. Closed' = Closed
  BY DEF Closed
<1> QED
  BY <1>1 DEF Box!Fault, Box!Next, Cost

Boxed == [Box!Next]_(Box!box)

(* what is put in hand, answered or not, and let go                         *)
LEMMA BoxTake ==
  ASSUME AnswersInv, NEW w \in Workers, NEW i \in Ids, Take(w, i)
  PROVE  Box!Next
<1>0. JobsTyped /\ job[w].pc = "next" /\ lock = w /\ request[i] # Absent
  BY DEF AnswersInv, AnswersTypeOK, JobsTyped, LockOK, Take, At
<1>1. /\ job'[w].pc \in {"unlink", "read"} /\ (job'[w].pc = "unlink" <=> Stem(i) = <<>>)
      /\ job'[w].answer = [to |-> i, ok |-> FALSE]
  BY <1>0, Takes DEF Has
<1>2. Served = Absent /\ i \in There
  BY <1>0, HandEmpty DEF Holding, There
<1>3. Served' = i /\ (Closed' <=> Stem(i) = <<>>)
  <2>1. lock' = w /\ job'[w].pc \in Holding /\ job'[w].answer.to = i
    BY <1>0, <1>1 DEF Take, Holding
  <2> QED
    BY <1>1, <2>1, HandNext
<1>4. Closed' = (i \in {j \in Ids : Stem(j) = <<>>})
  BY <1>3 DEF Closed
<1>5. UNCHANGED <<asked, There, Replies, crashes + errors + breaks>>
  BY Unseen DEF Take, files, faults
<1>6. Box!Take(i)
  BY <1>2, <1>3, <1>4, <1>5 DEF Box!Take
<1> QED
  BY <1>6 DEF Box!Next

LEMMA BoxAnswer ==
  ASSUME AnswersInv, NEW w \in Workers, Publish(w)
  PROVE  Box!Next
<1> DEFINE i == job[w].answer.to
           r == [to |-> i, ok |-> job[w].answer.ok, born |-> now]
<1>1. job[w].pc = "publish" /\ job'[w].pc = "unlink" /\ job'[w].answer.to = i /\ lock' = lock
  <2>1. JobsTyped /\ job[w].pc = "publish"
    BY DEF AnswersInv, AnswersTypeOK, JobsTyped, Publish, At
  <2>2. job[w].answer # Absent
    BY <2>1 DEF AnswersInv, LockOK, Holding
  <2> QED
    BY <2>1, <2>2, Writes DEF Serves, Publish
<1>2. i \in Ids /\ lock = w /\ Served = i /\ ~Closed /\ job[w].answer \in Pending
  BY <1>1, HandIs, InHand DEF Holding
<1>3. Served' = i /\ Closed'
  BY <1>1, <1>2, HandNext DEF Holding
<1>4. Closed' = TRUE
  BY <1>3 DEF Closed
<1>5. r \in Responses /\ r # Absent /\ r.to = i
  <2>1. now \in 0..MaxNow
    BY DEF AnswersInv, AnswersTypeOK
  <2>2. r \in Responses /\ r.to = i
    BY <1>2, <2>1 DEF Responses, Pending
  <2> HIDE DEF r
  <2> QED
    BY <2>2, AbsentApart DEF AbsentApart
<1>6. Replies' = [Replies EXCEPT ![[j \in Ids |-> Stem(j)][i]] = i]
  <2>1. response' = [response EXCEPT ![Stem(i)] = r]
    BY DEF Publish
  <2>2. response \in [Slots -> Responses \cup {Absent}] /\ Stem(i) \in Slots
    BY <1>2 DEF AnswersInv, AnswersTypeOK, Slots
  <2> HIDE DEF r, i
  <2>3. \A s \in Slots : Replies'[s] = IF s = Stem(i) THEN i ELSE Replies[s]
    BY <1>5, <2>1, <2>2 DEF Replies
  <2> QED
    BY <1>2, <2>3 DEF Replies
<1>7. UNCHANGED <<asked, There, Served, crashes + errors + breaks>>
  BY <1>2, <1>3, Unseen DEF Publish, faults
<1> HIDE DEF i, r
<1>8. Box!Answer(i)
  BY <1>2, <1>4, <1>6, <1>7 DEF Box!Answer
<1> QED
  BY <1>2, <1>8 DEF Box!Next

LEMMA BoxWriteFails ==
  ASSUME AnswersInv, NEW w \in Workers, WriteFails(w)
  PROVE  Boxed
<1> DEFINE i == job[w].answer.to
<1>0. /\ crashes \in Nat /\ errors \in Nat /\ breaks \in Nat
      /\ errors' = errors \/ errors' = errors + 1
      /\ UNCHANGED <<asked, There, Replies, crashes, breaks>>
  BY Unseen DEF AnswersInv, AnswersTypeOK, WriteFails, Fault, files
<1>1. /\ job[w].pc \in {"write", "publish"} /\ job[w].answer # Absent /\ job[w].tries # 0
      /\ ~safe => breaks > 0
  BY DEF AnswersInv, LockOK, TriesOK, WriteFails, Holding
<1>2. /\ job'[w].answer.to = i /\ job'[w].pc \in {"write", "unlink"}
      /\ job'[w].pc = "unlink" <=> job[w].tries = 1
  BY <1>1, Fails DEF AnswersInv, AnswersTypeOK, JobsTyped, Serves
<1>3. i \in Ids /\ lock = w /\ lock' = w /\ Served = i /\ ~Closed
  BY <1>1, HandIs DEF WriteFails, Holding
<1>4. Served' = i /\ (Closed' <=> job[w].tries = 1)
  BY <1>2, <1>3, HandNext DEF Holding
<1> HIDE DEF i
<1>5. CASE job[w].tries # 1 /\ errors' = errors
  BY <1>0, <1>3, <1>4, <1>5, Stutters DEF Boxed, Cost
<1>6. CASE job[w].tries # 1 /\ errors' = errors + 1
  <2>1. Cost' = Cost + 1
    BY <1>0, <1>6 DEF Cost
  <2> QED
    BY <1>0, <1>3, <1>4, <1>6, <2>1, Faulted DEF Boxed
<1>7. CASE job[w].tries = 1
  <2>1. Closed' = TRUE
    BY <1>4, <1>7 DEF Closed
  <2>2. breaks > 0 \/ errors' = errors + 1
    BY <1>1 DEF WriteFails, Fault
  <2>3. /\ crashes' + errors' + breaks' > 0
        /\ crashes' + errors' + breaks' \in {crashes + errors + breaks, crashes + errors + breaks + 1}
    BY <1>0, <2>2
  <2>4. Box!GiveUp(i)
    BY <1>0, <1>3, <1>4, <2>1, <2>3 DEF Box!GiveUp
  <2> QED
    BY <1>3, <2>4 DEF Box!Next, Boxed
<1> QED
  BY <1>0, <1>5, <1>6, <1>7

LEMMA BoxUnlink ==
  ASSUME AnswersInv, NEW w \in Workers, Unlink(w) \/ UnlinkFails(w)
  PROVE  Box!Next
<1> DEFINE i == job[w].answer.to
<1>0. JobsTyped /\ request \in [Ids -> Contents \cup {Absent}]
      /\ crashes \in Nat /\ errors \in Nat /\ breaks \in Nat
  BY DEF AnswersInv, AnswersTypeOK, JobsTyped
<1>1. job[w].pc = "unlink" /\ job'[w].pc = "next"
  BY <1>0, GoesOn DEF Unlink, UnlinkFails, At, Has
<1>2. lock = w /\ lock' = w /\ i \in Ids /\ Served = i /\ Closed
  BY <1>1, HandIs DEF Unlink, UnlinkFails, Holding
<1>3. Served' = Absent /\ ~Closed'
  BY <1>1, <1>2, HandEmptied DEF Holding
<1>4. Closed' = FALSE
  BY <1>3 DEF Closed
<1>5. CASE Unlink(w)
  <2>1. request' = [request EXCEPT ![i] = Absent]
        /\ UNCHANGED <<asked, Replies, crashes + errors + breaks>>
    BY <1>5, Unseen DEF Unlink, faults
  <2> HIDE DEF i
  <2>2. There' = There \ {i}
    BY <1>0, <1>2, <2>1 DEF There
  <2>3. Box!Remove(i)
    BY <1>2, <1>3, <1>4, <2>1, <2>2 DEF Box!Remove
  <2> QED
    BY <1>2, <2>3 DEF Box!Next
<1>6. CASE UnlinkFails(w)
  <2>1. /\ crashes' + errors' + breaks' = crashes + errors + breaks + 1
        /\ UNCHANGED <<asked, There, Replies>>
    BY <1>0, <1>6, Unseen DEF UnlinkFails, Fault, files
  <2> HIDE DEF i
  <2>2. Box!Lapse(i)
    BY <1>2, <1>3, <1>4, <2>1 DEF Box!Lapse
  <2> QED
    BY <1>2, <2>2 DEF Box!Next
<1> QED
  BY <1>5, <1>6

(* a helper is killed, with a request in hand or without                    *)
LEMMA BoxCrash ==
  ASSUME AnswersInv, NEW w \in Workers, Crash(w)
  PROVE  Box!Next
<1>0. JobsTyped /\ lock \in Workers \cup {Absent}
      /\ crashes \in Nat /\ errors \in Nat /\ breaks \in Nat
  BY DEF AnswersInv, AnswersTypeOK, JobsTyped
<1>1. job'[w].pc = "off" /\ Kept(w)
  BY <1>0, Stops DEF Crash, Has
<1>2. /\ crashes' + errors' + breaks' = crashes + errors + breaks + 1
      /\ UNCHANGED <<asked, There, Replies>>
  BY <1>0, Unseen DEF Crash
<1>3. CASE job[w].pc \in Holding
  <2>1. lock = w /\ Served \in Ids
    BY <1>3, HandIs
  <2>2. Served' = Absent /\ ~Closed'
    BY <2>1, HandEmptied DEF Crash
  <2>3. Closed' = FALSE
    BY <2>2 DEF Closed
  <2>4. Box!Lapse(Served)
    BY <1>2, <2>2, <2>3 DEF Box!Lapse
  <2> QED
    BY <2>1, <2>4 DEF Box!Next
<1>4. CASE job[w].pc \notin Holding
  <2>1. Served' = Served /\ (Closed' <=> Closed)
    BY <1>0, <1>1, <1>4, HandAside DEF Crash, Holding
  <2>2. Cost' = Cost + 1
    BY <1>2 DEF Cost
  <2> QED
    BY <1>2, <2>1, <2>2, Faulted
<1> QED
  BY <1>3, <1>4

(* a response is read, or reaped, or there is none any more                 *)
LEMMA BoxClear ==
  ASSUME AnswersInv, NEW s \in Slots, response' = [response EXCEPT ![s] = Absent],
         UNCHANGED <<asked, There, Served, Closed, Cost>>
  PROVE  Boxed
<1>1. response \in [Slots -> Responses \cup {Absent}]
  BY DEF AnswersInv, AnswersTypeOK
<1>2. Replies' = [Replies EXCEPT ![s] = Absent]
  <2>1. \A t \in Slots : Replies'[t] = IF t = s THEN Absent ELSE Replies[t]
    BY <1>1 DEF Replies
  <2> QED
    BY <2>1 DEF Replies
<1>3. CASE Replies[s] # Absent
  <2>1. Box!Clear(s)
    BY <1>2, <1>3 DEF Box!Clear, Cost
  <2> QED
    BY <2>1 DEF Box!Next, Boxed
<1>4. CASE Replies[s] = Absent
  <2>1. Replies' = Replies
    BY <1>2, <1>4 DEF Replies
  <2> QED
    BY <2>1, Stutters DEF Boxed
<1> QED
  BY <1>3, <1>4

(* a helper goes on with what it has in hand                                *)
LEMMA BoxReads ==
  ASSUME AnswersInv, NEW w \in Workers, ReadRequest(w) \/ RereadRequest(w) \/ WriteTemp(w)
  PROVE  Boxed
<1>1. Serves(w) /\ lock' = lock /\ job[w].pc \in Holding
  BY Serving DEF Steps
<1>2. JobsTyped /\ job[w].answer # Absent
  BY <1>1 DEF AnswersInv, AnswersTypeOK, JobsTyped, LockOK
<1>3. job'[w].pc \in {"reread", "write", "publish"}
  BY <1>2, Reads, Writes
<1>4. lock = w /\ Served = job[w].answer.to /\ ~Closed
  BY <1>1, HandIs DEF Serves
<1>5. Served' = job[w].answer.to /\ ~Closed'
  BY <1>1, <1>3, <1>4, HandNext DEF Serves
<1>6. UNCHANGED <<asked, There, Replies, Cost>>
  BY Unseen DEF ReadRequest, RereadRequest, WriteTemp, files, faults, Cost
<1> QED
  BY <1>4, <1>5, <1>6, Stutters DEF Boxed

(* ... and what it does before the lock, and around the requests            *)
LEMMA BoxIdles ==
  ASSUME AnswersInv, NEW w \in Workers, Idles(w) \/ Acquire(w), ~Crash(w)
  PROVE  Boxed
<1>0. /\ JobsTyped /\ lock \in Workers \cup {Absent}
      /\ crashes \in Nat /\ errors \in Nat /\ breaks \in Nat
      /\ job[w].pc = "next" => lock = w
  BY DEF AnswersInv, AnswersTypeOK, JobsTyped, LockOK
<1>1. Acts(w)
  BY DEF Acts, Idles, ReaperNext, DrainNext
<1>2. job[w].pc \notin Holding
  BY DEF Idles, Start, Judge, Reap, ReapFails, ReapDone, LockTimeout, Finish, Acquire, At, Holding
<1>3. job'[w].pc \notin Holding
  BY <1>0, Idling, Acquires DEF Has, Holding
<1>4. lock' = lock \/ (lock = Absent /\ lock' = w) \/ (lock = w /\ lock' = Absent)
  BY <1>0, Idling DEF Acquire
<1>5. Kept(w)
  <2>1. Start(w) => Kept(w)
    <3>1. now \in 0..MaxNow
      BY DEF AnswersInv, AnswersTypeOK
    <3> QED
      BY <1>0, <3>1, Starts
  <2>2. (\E s \in Slots : Judge(w, s)) \/ Reap(w) \/ ReapFails(w) => Kept(w)
    BY <1>0, Judges, Reaps
  <2>3. ReapDone(w) => Kept(w)
    BY <1>0, Moves DEF ReapDone, PCs
  <2>4. LockTimeout(w) \/ Finish(w) \/ Acquire(w) => Kept(w)
    BY <1>0, Stops, Acquires DEF LockTimeout, Finish
  <2> QED
    BY <2>1, <2>2, <2>3, <2>4 DEF Idles
<1>6. Served' = Served /\ (Closed' <=> Closed)
  BY <1>0, <1>2, <1>3, <1>4, <1>5, HandAside
<1>7. UNCHANGED <<asked, There, crashes, breaks>>
  BY Unseen DEF Idles, Start, Judge, Reap, ReapFails, ReapDone, LockTimeout, Finish, Acquire, files, faults
<1>8. CASE Reap(w)
  <2>1. job[w].slot \in Slots /\ response' = [response EXCEPT ![job[w].slot] = Absent]
    BY <1>8 DEF AnswersInv, AgeOK, Reap, At
  <2>2. Cost' = Cost /\ Closed' = Closed
    BY <1>6, <1>8 DEF Reap, faults, Cost, Closed
  <2> QED
    BY <1>6, <1>7, <2>1, <2>2, BoxClear
<1>9. CASE ReapFails(w)
  <2>1. Replies' = Replies /\ Cost' = Cost + 1
    BY <1>0, <1>9, Unseen DEF ReapFails, Fault, files, Cost
  <2> QED
    BY <1>6, <1>7, <2>1, Faulted DEF Boxed
<1>10. CASE ~Reap(w) /\ ~ReapFails(w)
  <2>1. Replies' = Replies /\ Cost' = Cost
    BY <1>7, <1>10, Unseen
       DEF Idles, Start, Judge, ReapDone, LockTimeout, Finish, Acquire, files, faults, Cost
  <2> QED
    BY <1>6, <1>7, <2>1, Stutters DEF Boxed
<1> QED
  BY <1>8, <1>9, <1>10

LEMMA BoxOthers ==
  ASSUME AnswersInv,
         UNCHANGED vars \/ Tick \/ Break \/ Repair \/ \E i \in Ids : Post(i) \/ Complete(i) \/ Collect(i)
  PROVE  Boxed
<1>0. /\ request \in [Ids -> Contents \cup {Absent}]
      /\ crashes \in Nat /\ errors \in Nat /\ breaks \in Nat
  BY DEF AnswersInv, AnswersTypeOK
<1>1. /\ UNCHANGED <<lock, job, crashes, errors>>
      /\ Served' = Served /\ Closed' = Closed
  <2>1. UNCHANGED <<lock, job, crashes, errors>>
    BY OtherFrames
  <2> QED
    BY <2>1 DEF Served, Closed
<1>2. ASSUME NEW i \in Ids, Post(i) PROVE Boxed
  <2>1. PICK c \in Contents : request' = [request EXCEPT ![i] = c]
    BY <1>2 DEF Post
  <2>2. There' = There \cup {i}
    BY <1>0, <2>1, AbsentApart DEF AbsentApart, There
  <2>3. i \notin asked /\ asked' = asked \cup {i} /\ UNCHANGED <<Replies, crashes + errors + breaks>>
    BY <1>2, Unseen DEF Post, faults
  <2>4. Box!Post(i)
    BY <1>1, <2>2, <2>3 DEF Box!Post
  <2> QED
    BY <2>4 DEF Box!Next, Boxed
<1>3. ASSUME NEW i \in Ids, Complete(i) PROVE Boxed
  <2>1. request' = [request EXCEPT ![i] = "valid"] /\ request[i] # Absent /\ "valid" # Absent
    BY <1>3, AbsentApart DEF AbsentApart, Complete, Contents
  <2>2. There' = There
    BY <1>0, <2>1 DEF There
  <2>3. UNCHANGED <<asked, Replies, Cost>>
    BY <1>3, Unseen DEF Complete, faults, Cost
  <2> QED
    BY <1>1, <2>2, <2>3, Stutters DEF Boxed
<1>4. ASSUME NEW i \in Ids, Collect(i) PROVE Boxed
  <2>1. i \in Slots /\ response' = [response EXCEPT ![i] = Absent] /\ UNCHANGED <<asked, There, Cost>>
    BY <1>4, Unseen DEF Collect, faults, Cost, Slots
  <2> QED
    BY <1>1, <2>1, BoxClear
<1>5. CASE Break
  <2>1. UNCHANGED <<asked, There, Replies>> /\ Cost' = Cost + 1
    BY <1>0, <1>5, Unseen DEF Break, files, Cost
  <2> QED
    BY <1>1, <2>1, Faulted DEF Boxed
<1>6. CASE UNCHANGED vars \/ Tick \/ Repair
  <2>1. UNCHANGED <<asked, There, Replies, Cost>>
    BY <1>6, Unseen DEF vars, Tick, Repair, files, faults, Cost
  <2> QED
    BY <1>1, <2>1, Stutters DEF Boxed
<1> QED
  BY <1>2, <1>3, <1>4, <1>5, <1>6

(* The plumbing is a mailbox, whatever is killed, fails or turns unsafe,    *)
(* whatever is reaped meanwhile, and however the names collide: one request *)
(* at a time is in hand, it is answered once or after a fault not at all,   *)
(* and only then is its file removed.                                       *)
THEOREM AnswersImplementMailbox == Spec => ImplementsMailbox
<1>1. Init => Box!Init
  <2> SUFFICES ASSUME Init PROVE Box!Init
    OBVIOUS
  <2>1. lock = Absent /\ asked = {} /\ crashes + errors + breaks = 0
    BY DEF Init
  <2>2. There = {} /\ Replies = [s \in Slots |-> Absent]
    BY DEF Init, There, Replies
  <2>3. Served = Absent /\ Closed = FALSE
    BY <2>1 DEF Served, Closed
  <2> QED
    BY <2>1, <2>2, <2>3 DEF Box!Init
<1>2. AnswersInv /\ [Next]_vars => [Box!Next]_(Box!box)
  <2> SUFFICES ASSUME AnswersInv, [Next]_vars PROVE Boxed
    BY DEF Boxed
  <2>1. ASSUME NEW w \in Workers, Acts(w) PROVE Boxed
    <3>1. CASE Steps(w)
      BY <3>1, BoxReads, BoxAnswer, BoxWriteFails DEF Steps, Boxed
    <3>2. CASE Crash(w)
      BY <3>2, BoxCrash DEF Boxed
    <3>3. CASE (Idles(w) \/ Acquire(w)) /\ ~Crash(w)
      BY <3>3, BoxIdles
    <3>4. ASSUME NEW i \in Ids, Take(w, i) PROVE Boxed
      BY <3>4, BoxTake DEF Boxed
    <3>5. CASE Unlink(w) \/ UnlinkFails(w)
      BY <3>5, BoxUnlink DEF Boxed
    <3> QED
      BY <2>1, <3>1, <3>2, <3>3, <3>4, <3>5, WhoActs
  <2>2. \/ \E w \in Workers : Acts(w)
        \/ UNCHANGED vars \/ Tick \/ Break \/ Repair
        \/ \E i \in Ids : Post(i) \/ Complete(i) \/ Collect(i)
    BY DEF Next, Acts
  <2> QED
    BY <2>1, <2>2, BoxOthers
<1> QED
  BY <1>1, <1>2, AnswersInvHolds, PTL DEF Spec, ImplementsMailbox, Box!Spec
================================================================================
