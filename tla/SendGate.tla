------------------------------- MODULE SendGate -------------------------------
(***************************************************************************)
(* The send gate, bin/send_gate.py, one action per system call that other  *)
(* processes can see.  Helper processes mint a nonce (send_preview),       *)
(* consume one (send) and reap the stale ones (at start-up, outside the    *)
(* bridge lock) in the shared directory <bridge>/nonces; any of them may   *)
(* be killed between two system calls.  Nothing but the files carries the  *)
(* gate from one process to the next.                                      *)
(***************************************************************************)
EXTENDS Naturals, FiniteSets

CONSTANTS Workers,     \* helper processes that run at the same time
          Nonces,      \* the nonces secrets.token_urlsafe may return
          Payloads,    \* the (to, text, service) triples, as preview_hash sees them
          Absent,      \* no such file
          TTL,         \* SEND_NONCE_TTL, in seconds
          Grace,       \* grace_period of the reaper, in seconds
          Res,         \* ticks of the clock per second: st_mtime is not truncated
          Fragile,     \* nonces whose record the disk may lose
          LastMint,    \* bound: the last tick at which a nonce is drawn or written
          MaxNow,      \* bound: the last tick of the clock
          MaxCrashes   \* bound: how many processes may be killed

(* A nonce file: the JSON record and its modification time.                *)
Files  == [payload : Payloads, expires : Nat, mtime : Nat]
Grants == [payload : Payloads, at : Nat]
Names  == {"json", "claimed"}   \* the names the reaper looks at

ASSUME GateConstants ==
    /\ TTL \in Nat /\ Grace \in Nat /\ Res \in Nat \ {0}
    /\ LastMint \in Nat /\ MaxNow \in Nat /\ MaxCrashes \in Nat
    /\ Fragile \subseteq Nonces
    /\ Absent \notin Files /\ Absent \notin Grants

VARIABLES now,      \* time.time(), in ticks
          tmp,      \* .<nonce>.json.tmp: the record a mint has written
          json,     \* <nonce>.json: a nonce that can be consumed
          claimed,  \* <nonce>.claimed: a nonce a send has taken
          damaged,  \* nonces whose record can no longer be read
          job,      \* what each process is doing, with its local variables
          crashes,  \* processes killed so far
          grant,    \* what each nonce was bound to when it was drawn
          passes    \* how many sends each nonce has let through

dir  == <<tmp, json, claimed, damaged>>
vars == <<now, dir, job, crashes, grant, passes>>

Sec(t) == t \div Res   \* int(time.time())

(* A process: where it is, and the local variables that are live there.    *)
Idle == [pc |-> "idle"]
Jobs == {Idle}
  \cup [pc : {"mint_write", "mint_replace"}, nonce : Nonces]
  \cup [pc : {"read_claimed", "unlink_claimed"}, nonce : Nonces, payload : Payloads]
  \cup [pc : {"judge"}, nonce : Nonces, payload : Payloads, rec : Files]
  \cup [pc : {"reap_list"}, snap : Nat]
  \cup [pc : {"reap_next"}, snap : Nat, todo : SUBSET (Nonces \X Names)]
  \cup [pc : {"reap_read"}, snap : Nat, todo : SUBSET (Nonces \X Names),
        nonce : Nonces, mtime : Nat]
  \cup [pc : {"reap_unlink"}, snap : Nat, todo : SUBSET (Nonces \X Names),
        nonce : Nonces, file : Names]

Init ==
    /\ now = 0
    /\ tmp = [n \in Nonces |-> Absent]
    /\ json = [n \in Nonces |-> Absent]
    /\ claimed = [n \in Nonces |-> Absent]
    /\ damaged = {}
    /\ job = [w \in Workers |-> Idle]
    /\ crashes = 0
    /\ grant = [n \in Nonces |-> Absent]
    /\ passes = [n \in Nonces |-> 0]

At(w, pc)    == job[w].pc = pc
Become(w, j) == job' = [job EXCEPT ![w] = j]

Put(f, n, file) == f' = [f EXCEPT ![n] = file]
Unlink(f, n)    == Put(f, n, Absent)   \* _unlink_at
Rename(from, to, n) == Put(to, n, from[n]) /\ Unlink(from, n)   \* keeps st_mtime

--------------------------------------------------------------------------------
(* mint_send_nonce *)

\* The nonce is drawn and its record computed; nothing is on disk yet.
MintDraw(w, n, p) ==
    /\ At(w, "idle")
    /\ now <= LastMint
    /\ grant[n] = Absent
    /\ grant' = [grant EXCEPT ![n] = [payload |-> p, at |-> now]]
    /\ Become(w, [pc |-> "mint_write", nonce |-> n])
    /\ UNCHANGED <<now, dir, crashes, passes>>

Record(n) == [payload |-> grant[n].payload, expires |-> Sec(grant[n].at) + TTL, mtime |-> now]

\* The record is written under a hidden name, which sets the mtime.
MintWrite(w) ==
    LET n == job[w].nonce IN
    /\ At(w, "mint_write")
    /\ now <= LastMint
    /\ Put(tmp, n, Record(n))
    /\ Become(w, [pc |-> "mint_replace", nonce |-> n])
    /\ UNCHANGED <<now, json, claimed, damaged, crashes, grant, passes>>

\* os.replace: the nonce can be consumed from here on.
MintPublish(w) ==
    /\ At(w, "mint_replace")
    /\ Rename(tmp, json, job[w].nonce)
    /\ Become(w, Idle)
    /\ UNCHANGED <<now, claimed, damaged, crashes, grant, passes>>

\* The write or the rename raises: the finally clause removes the temp file.
MintFail(w) ==
    /\ job[w].pc \in {"mint_write", "mint_replace"}
    /\ Unlink(tmp, job[w].nonce)
    /\ Become(w, Idle)
    /\ UNCHANGED <<now, json, claimed, damaged, crashes, grant, passes>>

--------------------------------------------------------------------------------
(* consume_send_nonce *)

\* Mutant of Claim: the record is copied, and the nonce only removed afterwards.
ClaimByCopy(w, n, p) ==
    /\ At(w, "idle")
    /\ json[n] # Absent
    /\ Put(claimed, n, json[n])
    /\ Become(w, [pc |-> "read_claimed", nonce |-> n, payload |-> p])
    /\ UNCHANGED <<now, tmp, json, damaged, crashes, grant, passes>>

\* os.rename takes the nonce away from every other process; a nonce that is not
\* there is "not recognized" and the call ends without a trace.
Claim(w, n, p) ==
    /\ At(w, "idle")
    /\ json[n] # Absent
    /\ Rename(json, claimed, n)
    /\ Become(w, [pc |-> "read_claimed", nonce |-> n, payload |-> p])
    /\ UNCHANGED <<now, tmp, damaged, crashes, grant, passes>>

\* The claimed record is read; one that is missing or malformed ends the attempt.
ReadClaimed(w) ==
    LET n == job[w].nonce
        p == job[w].payload
    IN
    /\ At(w, "read_claimed")
    /\ IF claimed[n] # Absent /\ n \notin damaged
       THEN Become(w, [pc |-> "judge", nonce |-> n, payload |-> p, rec |-> claimed[n]])
       ELSE Become(w, [pc |-> "unlink_claimed", nonce |-> n, payload |-> p])
    /\ UNCHANGED <<now, dir, crashes, grant, passes>>

\* Mutants of Accepts: the payload, the expiry, is not looked at.
AcceptsAnyPayload(j) == Sec(now) <= j.rec.expires
AcceptsAnyAge(j) == j.payload = j.rec.payload

Accepts(j) == Sec(now) <= j.rec.expires /\ j.payload = j.rec.payload

\* The record's expiry and payload decide.  A pass is counted here, where it is
\* decided, whether or not the process lives to act on it.
Judge(w) ==
    LET n == job[w].nonce IN
    /\ At(w, "judge")
    /\ passes' = IF Accepts(job[w]) THEN [passes EXCEPT ![n] = @ + 1] ELSE passes
    /\ Become(w, [pc |-> "unlink_claimed", nonce |-> n, payload |-> job[w].payload])
    /\ UNCHANGED <<now, dir, crashes, grant>>

\* Accepted or not, the claimed file is removed and the call returns or raises.
UnlinkClaimed(w) ==
    /\ At(w, "unlink_claimed")
    /\ Unlink(claimed, job[w].nonce)
    /\ Become(w, Idle)
    /\ UNCHANGED <<now, tmp, json, damaged, crashes, grant, passes>>

--------------------------------------------------------------------------------
(* reap_expired_nonces *)

\* The clock is read first, and once.
ReapStart(w) ==
    /\ At(w, "idle")
    /\ Become(w, [pc |-> "reap_list", snap |-> Sec(now)])
    /\ UNCHANGED <<now, dir, crashes, grant, passes>>

FileAt(n, name) == IF name = "json" THEN json[n] ELSE claimed[n]
Listing == {f \in Nonces \X Names : FileAt(f[1], f[2]) # Absent}
ReapOn(w, todo) == Become(w, [pc |-> "reap_next", snap |-> job[w].snap, todo |-> todo])

\* os.listdir; hidden names, the temp files, are passed over.
ReapList(w) ==
    /\ At(w, "reap_list")
    /\ ReapOn(w, Listing)
    /\ UNCHANGED <<now, dir, crashes, grant, passes>>

\* age > limit and age < limit, where age = now - st_mtime: the reaper's now is in
\* whole seconds, st_mtime is not
Older(snap, mtime, limit)   == snap * Res > mtime + limit * Res
Younger(snap, mtime, limit) == snap * Res < mtime + limit * Res

\* os.stat of the next name: it is gone, too young to judge, or a claim that may
\* still be in hand ...
ReapSkip(w, n, name) ==
    LET f == FileAt(n, name) IN
    /\ At(w, "reap_next")
    /\ <<n, name>> \in job[w].todo
    /\ \/ f = Absent
       \/ f # Absent /\ name = "claimed" /\ ~Older(job[w].snap, f.mtime, TTL)
       \/ f # Absent /\ name = "json" /\ Younger(job[w].snap, f.mtime, Grace)
    /\ ReapOn(w, job[w].todo \ {<<n, name>>})
    /\ UNCHANGED <<now, dir, crashes, grant, passes>>

\* Mutants of ReapClaim: a claim is removed after the grace period; it never is.
ReapClaimEarly(w, n) ==
    /\ At(w, "reap_next")
    /\ <<n, "claimed">> \in job[w].todo
    /\ claimed[n] # Absent
    /\ Older(job[w].snap, claimed[n].mtime, Grace)
    /\ Become(w, [pc |-> "reap_unlink", snap |-> job[w].snap,
                  todo |-> job[w].todo \ {<<n, "claimed">>}, nonce |-> n, file |-> "claimed"])
    /\ UNCHANGED <<now, dir, crashes, grant, passes>>

ReapClaimNever(w, n) ==
    /\ At(w, "reap_next")
    /\ <<n, "claimed">> \in job[w].todo
    /\ ReapOn(w, job[w].todo \ {<<n, "claimed">>})
    /\ UNCHANGED <<now, dir, crashes, grant, passes>>

\* ... or a claim that has outlived its nonce ...
ReapClaim(w, n) ==
    /\ At(w, "reap_next")
    /\ <<n, "claimed">> \in job[w].todo
    /\ claimed[n] # Absent
    /\ Older(job[w].snap, claimed[n].mtime, TTL)
    /\ Become(w, [pc |-> "reap_unlink", snap |-> job[w].snap,
                  todo |-> job[w].todo \ {<<n, "claimed">>}, nonce |-> n, file |-> "claimed"])
    /\ UNCHANGED <<now, dir, crashes, grant, passes>>

\* ... or a record to read.
ReapOpen(w, n) ==
    /\ At(w, "reap_next")
    /\ <<n, "json">> \in job[w].todo
    /\ json[n] # Absent
    /\ ~Younger(job[w].snap, json[n].mtime, Grace)
    /\ Become(w, [pc |-> "reap_read", snap |-> job[w].snap,
                  todo |-> job[w].todo \ {<<n, "json">>}, nonce |-> n, mtime |-> json[n].mtime])
    /\ UNCHANGED <<now, dir, crashes, grant, passes>>

\* Mutant of Stale: the record goes in its last second.
StaleInLastSecond(j) ==
    IF json[j.nonce] # Absent /\ j.nonce \notin damaged
    THEN j.snap >= json[j.nonce].expires
    ELSE Older(j.snap, j.mtime, Grace)

\* A record that is expired goes; so does one that cannot be read, unless the
\* stat before found it at the very end of the grace period.
Stale(j) ==
    IF json[j.nonce] # Absent /\ j.nonce \notin damaged
    THEN j.snap > json[j.nonce].expires
    ELSE Older(j.snap, j.mtime, Grace)

ReapRead(w) ==
    LET j == job[w] IN
    /\ At(w, "reap_read")
    /\ IF Stale(j)
       THEN Become(w, [pc |-> "reap_unlink", snap |-> j.snap, todo |-> j.todo,
                       nonce |-> j.nonce, file |-> "json"])
       ELSE ReapOn(w, j.todo)
    /\ UNCHANGED <<now, dir, crashes, grant, passes>>

\* The file is removed by name, whatever has happened to it since it was examined.
ReapUnlink(w) ==
    LET j == job[w] IN
    /\ At(w, "reap_unlink")
    /\ IF j.file = "json" THEN Unlink(json, j.nonce) /\ UNCHANGED claimed
                          ELSE Unlink(claimed, j.nonce) /\ UNCHANGED json
    /\ ReapOn(w, j.todo)
    /\ UNCHANGED <<now, tmp, damaged, crashes, grant, passes>>

ReapDone(w) ==
    /\ At(w, "reap_next")
    /\ job[w].todo = {}
    /\ Become(w, Idle)
    /\ UNCHANGED <<now, dir, crashes, grant, passes>>

--------------------------------------------------------------------------------
(* The environment *)

Tick ==
    /\ now < MaxNow
    /\ now' = now + 1
    /\ UNCHANGED <<dir, job, crashes, grant, passes>>

\* SIGKILL, power loss: no except or finally clause runs.
Crash(w) ==
    /\ ~At(w, "idle")
    /\ crashes < MaxCrashes
    /\ crashes' = crashes + 1
    /\ Become(w, Idle)
    /\ UNCHANGED <<now, dir, grant, passes>>

\* The record is lost while its name stays: nothing is fsynced before the rename.
Damage(n) ==
    /\ n \in Fragile \ damaged
    /\ json[n] # Absent \/ claimed[n] # Absent
    /\ damaged' = damaged \cup {n}
    /\ UNCHANGED <<now, tmp, json, claimed, job, crashes, grant, passes>>

MintNext(w) ==
    \/ \E n \in Nonces, p \in Payloads : MintDraw(w, n, p)
    \/ MintWrite(w)
    \/ MintPublish(w)
    \/ MintFail(w)

ConsumeNext(w) ==
    \/ \E n \in Nonces, p \in Payloads : Claim(w, n, p)
    \/ ReadClaimed(w)
    \/ Judge(w)
    \/ UnlinkClaimed(w)

ReapNext(w) ==
    \/ ReapStart(w)
    \/ ReapList(w)
    \/ \E n \in Nonces, name \in Names : ReapSkip(w, n, name)
    \/ \E n \in Nonces : ReapClaim(w, n) \/ ReapOpen(w, n)
    \/ ReapRead(w)
    \/ ReapUnlink(w)
    \/ ReapDone(w)

WorkerNext(w) == MintNext(w) \/ ConsumeNext(w) \/ ReapNext(w)

Next ==
    \/ \E w \in Workers : WorkerNext(w) \/ Crash(w)
    \/ Tick
    \/ \E n \in Nonces : Damage(n)

Spec == Init /\ [][Next]_vars

(* Time passes, a process that has begun an operation goes on with it, and *)
(* helpers keep being started: main reaps before it takes any request.     *)
Continue(w) == ~At(w, "idle") /\ WorkerNext(w)

FairSpec ==
    /\ Spec
    /\ WF_vars(Tick)
    /\ \A w \in Workers : WF_vars(Continue(w)) /\ SF_vars(ReapStart(w))

--------------------------------------------------------------------------------
(* What the gate guarantees *)

(* Type correctness: files, live local variables and ghosts.                *)
GateTypeOK ==
    /\ now \in Nat
    /\ tmp \in [Nonces -> Files \cup {Absent}]
    /\ json \in [Nonces -> Files \cup {Absent}]
    /\ claimed \in [Nonces -> Files \cup {Absent}]
    /\ damaged \subseteq Nonces
    /\ job \in [Workers -> Jobs]
    /\ crashes \in 0..MaxCrashes
    /\ grant \in [Nonces -> Grants \cup {Absent}]
    /\ passes \in [Nonces -> Nat]

(* However processes race for the nonce and wherever they are killed, one   *)
(* nonce lets at most one send through (consume_send_nonce).                *)
AtMostOnePass == \A n \in Nonces : passes[n] <= 1

(* A send that is let through carries the previewed payload, and comes less *)
(* than a second after the TTL: truncating both clock readings to seconds   *)
(* stretches the nonce's life, but by less than one second.                 *)
PassIsJustified ==
    [][\A n \in Nonces : passes'[n] # passes[n] =>
          \E w \in Workers :
             /\ At(w, "judge") /\ job[w].nonce = n
             /\ job[w].payload = grant[n].payload
             /\ now < grant[n].at + (TTL + 1) * Res]_vars

(* A send that claimed its nonce is refused only for a cause: the payload   *)
(* is not the previewed one, the full TTL has gone by since the preview, or *)
(* the disk lost the record.  In particular the reaper, which runs outside  *)
(* the bridge lock, never takes a valid nonce from under a send.            *)
RefusalHasACause ==
    \A w \in Workers : At(w, "unlink_claimed") =>
        LET n == job[w].nonce IN
            \/ passes[n] > 0
            \/ job[w].payload # grant[n].payload
            \/ now > grant[n].at + TTL * Res
            \/ n \in damaged

(* An issued nonce that the disk has not lost leaves its name only for a    *)
(* claim, as long as it can still be used: no reaper, however late it acts  *)
(* on what it saw, removes a nonce before the full TTL has gone by.         *)
LiveLeavesByClaim ==
    [][\A n \in Nonces :
          /\ json[n] # Absent /\ json'[n] = Absent
          /\ n \notin damaged /\ now <= grant[n].at + TTL * Res
          => claimed'[n] = json[n]]_vars

(* The inductive invariant behind the safety properties, in two parts.      *)
Minting(w, n)  == job[w].pc \in {"mint_write", "mint_replace"} /\ job[w].nonce = n
Claiming(w, n) == job[w].pc \in {"read_claimed", "judge", "unlink_claimed"} /\ job[w].nonce = n

\* Nobody has drawn the nonce: there is no trace of it anywhere.
UndrawnIsNowhere(n) ==
    grant[n] = Absent =>
        /\ tmp[n] = Absent /\ json[n] = Absent /\ claimed[n] = Absent /\ passes[n] = 0
        /\ \A w \in Workers : ~Minting(w, n) /\ ~Claiming(w, n)

\* It is being minted: by one process, and nobody can use it yet.
MintedByOne(n) ==
    \A w \in Workers : Minting(w, n) =>
        /\ json[n] = Absent /\ claimed[n] = Absent /\ passes[n] = 0
        /\ \A v \in Workers : (Minting(v, n) => v = w) /\ ~Claiming(v, n)

\* It can be consumed: then no send has it, had it, or was let through by it.
IssuedIsUnused(n) ==
    json[n] # Absent =>
        claimed[n] = Absent /\ passes[n] = 0 /\ \A w \in Workers : ~Claiming(w, n)

\* It is claimed: by one send, which it has not let through before the verdict.
ClaimedByOne(n) ==
    \A w \in Workers : Claiming(w, n) =>
        /\ ~At(w, "unlink_claimed") => passes[n] = 0
        /\ \A v \in Workers : Claiming(v, n) => v = w

TokenInv ==
    \A n \in Nonces :
        /\ UndrawnIsNowhere(n) /\ MintedByOne(n) /\ IssuedIsUnused(n) /\ ClaimedByOne(n)
        /\ passes[n] <= 1

Expires(n) == Sec(grant[n].at) + TTL

\* Every copy of the record says what the nonce was bound to, in the past.
Faithful(f, n) ==
    f.payload = grant[n].payload /\ f.expires = Expires(n) /\ f.mtime >= grant[n].at

RecordsAreFaithful ==
    /\ \A n \in Nonces :
          /\ grant[n] # Absent => grant[n].at <= now
          /\ tmp[n] # Absent => Faithful(tmp[n], n)
          /\ json[n] # Absent => Faithful(json[n], n)
          /\ claimed[n] # Absent => Faithful(claimed[n], n)
    /\ \A w \in Workers : At(w, "judge") => Faithful(job[w].rec, job[w].nonce)

\* A reaper's clock is behind; what it is about to unlink is gone, lost or expired,
\* and no mint will put it back.
Settled(n) == grant[n] # Absent /\ \A w \in Workers : ~Minting(w, n)

ReapersAreRight ==
    \A w \in Workers :
        /\ job[w].pc \in {"reap_list", "reap_next", "reap_read", "reap_unlink"} =>
              job[w].snap <= Sec(now)
        /\ job[w].pc \in {"reap_read", "reap_unlink"} => Settled(job[w].nonce)
        /\ At(w, "reap_unlink") =>
              LET n == job[w].nonce IN
                 \/ job[w].file = "json" /\ (json[n] = Absent \/ n \in damaged)
                 \/ job[w].snap > Expires(n)

\* A claim that a reaper took from under its send had expired.
ClaimsLastTheTTL ==
    \A w \in Workers :
        At(w, "read_claimed") /\ claimed[job[w].nonce] = Absent =>
            Sec(now) > Expires(job[w].nonce)

GateInv ==
    GateTypeOK /\ TokenInv /\ RecordsAreFaithful /\ ReapersAreRight /\ ClaimsLastTheTTL
        /\ RefusalHasACause

(* The gate implements the ledger of nonces.                                *)
Drafting(n) == \E w \in Workers : Minting(w, n)
Undecided(n) ==
    \E w \in Workers :
        \/ At(w, "judge") /\ job[w].nonce = n
        \/ At(w, "read_claimed") /\ job[w].nonce = n /\ claimed[n] # Absent /\ n \notin damaged

Status(n) == IF grant[n] = Absent THEN "unknown"
             ELSE IF Drafting(n) THEN "drafted"
             ELSE IF json[n] # Absent /\ n \notin damaged THEN "live"
             ELSE IF Undecided(n) THEN "claimed"
             ELSE "spent"

Ledger == INSTANCE NonceLedger WITH
              status  <- [n \in Nonces |-> Status(n)],
              NoGrant <- Absent

ImplementsLedger == Ledger!Spec

(* Every file a preview or a send leaves under a visible name is removed:   *)
(* an unused nonce, a damaged one, and a claim whose process was killed.    *)
StaleFilesRemoved ==
    \A n \in Nonces : /\ json[n] # Absent ~> json[n] = Absent
                      /\ claimed[n] # Absent ~> claimed[n] = Absent
================================================================================
