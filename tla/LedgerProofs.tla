----------------------------- MODULE LedgerProofs -----------------------------
(* The files, renames and reapers of the send gate implement the ledger of *)
(* nonces, for every number of processes, nonces and payloads.  Bridge is  *)
(* built on the ledger, so this is what carries its theorems to the code   *)
(* of bin/send_gate.py.                                                    *)
EXTENDS SendGateProofs

--------------------------------------------------------------------------------
(* What a nonce's status rests on *)

Live(n) == json[n] # Absent /\ n \notin damaged

Deciding(w, n) ==
    \/ At(w, "judge") /\ job[w].nonce = n
    \/ At(w, "read_claimed") /\ job[w].nonce = n /\ claimed[n] # Absent /\ n \notin damaged

LEMMA SameStatus ==
  ASSUME NEW n \in Nonces,
         grant'[n] = Absent <=> grant[n] = Absent,
         \A v \in Workers : (Minting(v, n)' <=> Minting(v, n)) /\
                            (Deciding(v, n)' <=> Deciding(v, n)),
         Live(n)' <=> Live(n)
  PROVE  Status(n)' = Status(n)
<1>1. Drafting(n)' <=> Drafting(n)
  BY DEF Drafting
<1>2. Undecided(n)' <=> Undecided(n)
  BY DEF Undecided, Deciding
<1> QED
  BY <1>1, <1>2 DEF Status, Live

(* The invariant makes the cases of Status exclusive.                       *)
LEMMA StatusIs ==
  ASSUME TokenInv, NEW n \in Nonces
  PROVE  /\ grant[n] = Absent => Status(n) = "unknown"
         /\ \A v \in Workers : Minting(v, n) => Status(n) = "drafted"
         /\ Live(n) => Status(n) = "live"
         /\ \A v \in Workers : Deciding(v, n) => Status(n) = "claimed"
         /\ /\ grant[n] # Absent /\ ~Live(n)
            /\ \A v \in Workers : ~Minting(v, n) /\ ~Deciding(v, n)
            => Status(n) = "spent"
<1>1. UndrawnIsNowhere(n) /\ MintedByOne(n) /\ IssuedIsUnused(n)
  BY DEF TokenInv
<1>2. \A v \in Workers : Deciding(v, n) => Claiming(v, n)
  BY DEF Deciding, Claiming, At
<1>3. Undecided(n) <=> \E v \in Workers : Deciding(v, n)
  BY DEF Undecided, Deciding
<1> QED
  BY <1>1, <1>2, <1>3 DEF Status, Drafting, Live, UndrawnIsNowhere, MintedByOne, IssuedIsUnused

LEMMA StatusBecomes ==
  ASSUME TokenInv', NEW n \in Nonces
  PROVE  /\ \A v \in Workers : Minting(v, n)' => Status(n)' = "drafted"
         /\ Live(n)' => Status(n)' = "live"
         /\ \A v \in Workers : Deciding(v, n)' => Status(n)' = "claimed"
         /\ /\ grant'[n] # Absent /\ ~Live(n)'
            /\ \A v \in Workers : ~Minting(v, n)' /\ ~Deciding(v, n)'
            => Status(n)' = "spent"
<1>1. UndrawnIsNowhere(n)' /\ MintedByOne(n)' /\ IssuedIsUnused(n)'
  BY DEF TokenInv
<1>2. \A v \in Workers : Deciding(v, n)' => Claiming(v, n)'
  BY DEF Deciding, Claiming, At
<1>3. Undecided(n)' <=> \E v \in Workers : Deciding(v, n)'
  BY DEF Undecided, Deciding
<1> QED
  BY <1>1, <1>2, <1>3 DEF Status, Drafting, Live, UndrawnIsNowhere, MintedByOne, IssuedIsUnused

--------------------------------------------------------------------------------
(* Steps and stutters of the ledger *)

LEMMA Stutters ==
  ASSUME \A m \in Nonces : Status(m)' = Status(m), UNCHANGED <<now, grant, passes>>
  PROVE  UNCHANGED Ledger!ledger
BY DEF Ledger!ledger

LEMMA Moves ==
  ASSUME NEW n \in Nonces, \A m \in Nonces \ {n} : Status(m)' = Status(m)
  PROVE  Ledger!Move(n, Status(n), Status(n)')
BY DEF Ledger!Move

(* A step of one process that touches the files of one nonce leaves the     *)
(* status of every other.                                                   *)
LEMMA OthersKeepTheirs ==
  ASSUME NEW w \in Workers, NEW n \in Nonces,
         \A v \in Workers \ {w} : job'[v] = job[v],
         \A m \in Nonces \ {n} :
            /\ (Minting(w, m)' <=> Minting(w, m)) /\ (Deciding(w, m)' <=> Deciding(w, m))
            /\ grant'[m] = grant[m] /\ json'[m] = json[m] /\ claimed'[m] = claimed[m],
         damaged' = damaged
  PROVE  \A m \in Nonces \ {n} : Status(m)' = Status(m)
<1> SUFFICES ASSUME NEW m \in Nonces \ {n} PROVE Status(m)' = Status(m)
  OBVIOUS
<1>1. \A v \in Workers : (Minting(v, m)' <=> Minting(v, m)) /\
                         (Deciding(v, m)' <=> Deciding(v, m))
  BY DEF Minting, Deciding, At
<1>2. Live(m)' <=> Live(m)
  BY DEF Live
<1> QED
  BY <1>1, <1>2, SameStatus

(* A step of one process that keeps its role, and that touches no file,     *)
(* leaves every status.                                                     *)
LEMMA QuietStatus ==
  ASSUME NEW w \in Workers,
         \A v \in Workers \ {w} : job'[v] = job[v],
         \A m \in Nonces : (Minting(w, m)' <=> Minting(w, m)) /\
                           (Deciding(w, m)' <=> Deciding(w, m)),
         UNCHANGED <<now, json, claimed, damaged, grant, passes>>
  PROVE  UNCHANGED Ledger!ledger
<1>1. ASSUME NEW m \in Nonces PROVE Status(m)' = Status(m)
  <2>1. \A v \in Workers : (Minting(v, m)' <=> Minting(v, m)) /\
                           (Deciding(v, m)' <=> Deciding(v, m))
    BY DEF Minting, Deciding, At
  <2> QED
    BY <2>1, SameStatus DEF Live
<1> QED
  BY <1>1, Stutters

--------------------------------------------------------------------------------
(* Every step of the gate is one of the ledger, or none *)

LEMMA MintDrawn ==
  ASSUME GateInv, GateInv', NEW w \in Workers, NEW n \in Nonces, NEW p \in Payloads,
         MintDraw(w, n, p)
  PROVE  Ledger!Draft(n, p)
<1> USE DEF GateInv, GateTypeOK, MintDraw, Become, At, dir
<1>1. Minting(w, n)' /\ \A m \in Nonces : ~Minting(w, m) /\ ~Deciding(w, m) /\ ~Deciding(w, m)'
  BY DEF Minting, Deciding
<1>2. \A m \in Nonces \ {n} : ~Minting(w, m)'
  BY DEF Minting
<1>3. \A m \in Nonces \ {n} : Status(m)' = Status(m)
  BY <1>1, <1>2, OthersKeepTheirs
<1>4. Status(n) = "unknown" /\ Status(n)' = "drafted"
  BY <1>1, StatusIs, StatusBecomes
<1>5. Ledger!Move(n, "unknown", "drafted")
  BY <1>3, <1>4, Moves
<1> QED
  BY <1>5 DEF Ledger!Draft

\* a mint that ends, by publishing, failing or dying
LEMMA MintEnded ==
  ASSUME GateInv, GateInv', NEW w \in Workers, NEW n \in Nonces, Minting(w, n),
         \A v \in Workers \ {w} : job'[v] = job[v], job'[w] = Idle,
         \A m \in Nonces \ {n} : json'[m] = json[m],
         UNCHANGED <<now, claimed, damaged, grant, passes>>
  PROVE  Ledger!Issue(n) \/ Ledger!Abandon(n)
<1> USE DEF GateInv
<1>1. \A m \in Nonces : /\ ~Deciding(w, m) /\ ~Deciding(w, m)' /\ ~Minting(w, m)'
                        /\ m # n => ~Minting(w, m)
  BY DEF Minting, Deciding, At, Idle
<1>2. \A m \in Nonces \ {n} : Status(m)' = Status(m)
  BY <1>1, OthersKeepTheirs
<1>3. grant[n] # Absent /\ \A v \in Workers : (Minting(v, n) => v = w) /\ ~Claiming(v, n)
  BY DEF TokenInv, UndrawnIsNowhere, MintedByOne
<1>4. \A v \in Workers : ~Minting(v, n)' /\ ~Deciding(v, n)'
  <2> SUFFICES ASSUME NEW v \in Workers \ {w} PROVE ~Minting(v, n)' /\ ~Deciding(v, n)'
    BY <1>1
  <2> QED
    BY <1>3 DEF Minting, Claiming, Deciding, At
<1>5. Status(n) = "drafted" /\ Status(n)' \in {"live", "spent"}
  BY <1>3, <1>4, StatusIs, StatusBecomes
<1>6. Ledger!Move(n, "drafted", "live") \/ Ledger!Move(n, "drafted", "spent")
  BY <1>2, <1>5, Moves
<1> QED
  BY <1>6 DEF Ledger!Issue, Ledger!Abandon

LEMMA Claimed ==
  ASSUME GateInv, GateInv', NEW w \in Workers, NEW n \in Nonces, NEW p \in Payloads,
         Claim(w, n, p)
  PROVE  Ledger!Claim(n) \/ UNCHANGED Ledger!ledger
<1> USE DEF GateInv, GateTypeOK, Claim, Become, At, Rename, Unlink, Put
<1>1. \A m \in Nonces : /\ ~Deciding(w, m) /\ ~Minting(w, m) /\ ~Minting(w, m)'
                        /\ m # n => ~Deciding(w, m)'
  BY DEF Minting, Deciding
<1>2. \A m \in Nonces \ {n} : Status(m)' = Status(m)
  BY <1>1, OthersKeepTheirs
<1>3. grant[n] # Absent /\ \A v \in Workers : ~Claiming(v, n) /\ ~Minting(v, n)
  BY DEF TokenInv, UndrawnIsNowhere, MintedByOne, IssuedIsUnused
<1>4. \A v \in Workers : ~Deciding(v, n) /\ (v # w => ~Minting(v, n)' /\ ~Deciding(v, n)')
  BY <1>3 DEF Minting, Claiming, Deciding
<1>5. CASE n \in damaged
  <2>1. ~Live(n) /\ ~Live(n)' /\ ~Deciding(w, n)'
    BY <1>5 DEF Live, Deciding
  <2>2. Status(n) = "spent" /\ Status(n)' = "spent"
    BY <1>1, <1>3, <1>4, <2>1, StatusIs, StatusBecomes
  <2> QED
    BY <1>2, <2>2, Stutters
<1>6. CASE n \notin damaged
  <2>1. Live(n) /\ Deciding(w, n)'
    BY <1>6 DEF Live, Deciding
  <2>2. Status(n) = "live" /\ Status(n)' = "claimed"
    BY <2>1, StatusIs, StatusBecomes
  <2>3. Ledger!Move(n, "live", "claimed")
    BY <1>2, <2>2, Moves
  <2> QED
    BY <2>3 DEF Ledger!Claim
<1> QED
  BY <1>5, <1>6

\* a claim that is no longer being decided: judged, killed, lost, or reaped
LEMMA Decided ==
  ASSUME GateInv, GateInv', NEW w \in Workers, NEW n \in Nonces,
         Deciding(w, n), ~Deciding(w, n)',
         \A v \in Workers : /\ Minting(v, n)' => Minting(v, n)
                            /\ Deciding(v, n)' => Deciding(v, n),
         \A m \in Nonces \ {n} : Status(m)' = Status(m),
         Live(n)' => Live(n), UNCHANGED grant
  PROVE  Ledger!Move(n, "claimed", "spent")
<1> USE DEF GateInv
<1>1. Claiming(w, n)
  BY DEF Claiming, Deciding, At
<1>2. /\ grant[n] # Absent /\ ~Live(n)
      /\ \A v \in Workers : ~Minting(v, n) /\ (Claiming(v, n) => v = w)
  BY <1>1 DEF TokenInv, UndrawnIsNowhere, MintedByOne, IssuedIsUnused, ClaimedByOne, Live
<1>3. \A v \in Workers : ~Minting(v, n)' /\ ~Deciding(v, n)'
  BY <1>2 DEF Claiming, Deciding, At
<1>4. Status(n) = "claimed" /\ Status(n)' = "spent"
  BY <1>2, <1>3, StatusIs, StatusBecomes
<1> QED
  BY <1>4, Moves

LEMMA Read ==
  ASSUME GateInv, NEW w \in Workers, ReadClaimed(w)
  PROVE  UNCHANGED Ledger!ledger
<1> USE DEF GateInv, GateTypeOK, ReadClaimed, Become, At, dir
<1>1. \A m \in Nonces : /\ Minting(w, m)' <=> Minting(w, m)
                        /\ Deciding(w, m)' <=> Deciding(w, m)
  BY DEF Minting, Deciding
<1> QED
  BY <1>1, QuietStatus

LEMMA Judged ==
  ASSUME GateInv, GateInv', NEW w \in Workers, Judge(w)
  PROVE  \E n \in Nonces : Ledger!Burn(n) \/ \E p \in Payloads : Ledger!Pass(n, p)
<1>1. PICK n \in Nonces, p \in Payloads : n = job[w].nonce /\ p = job[w].payload
  BY DEF GateInv, GateTypeOK, Jobs, Idle, Judge, At
<1>2. Deciding(w, n) /\ \A m \in Nonces : /\ ~Minting(w, m) /\ ~Minting(w, m)' /\ ~Deciding(w, m)'
                                          /\ m # n => ~Deciding(w, m)
  BY <1>1 DEF GateInv, GateTypeOK, Judge, Become, At, Minting, Deciding
<1>3. \A v \in Workers \ {w} : job'[v] = job[v]
  BY DEF Judge, Become, GateInv, GateTypeOK
<1>4. UNCHANGED <<now, grant, json, claimed, damaged>>
  BY DEF Judge, dir
<1>5. \A m \in Nonces \ {n} : Status(m)' = Status(m)
  BY <1>1, <1>2, <1>3, <1>4, OthersKeepTheirs
<1>6. \A v \in Workers : /\ Minting(v, n)' => Minting(v, n)
                         /\ Deciding(v, n)' => Deciding(v, n)
  BY <1>1, <1>2, <1>3, <1>4 DEF Minting, Deciding, At
<1>7. Ledger!Move(n, "claimed", "spent")
  BY <1>1, <1>2, <1>4, <1>5, <1>6, Decided DEF Live
<1>8. CASE ~Accepts(job[w])
  <2>1. UNCHANGED passes
    BY <1>8 DEF Judge
  <2>2. Ledger!Burn(n)
    BY <1>4, <1>7, <2>1 DEF Ledger!Burn
  <2> QED
    BY <1>1, <2>2
<1>9. CASE Accepts(job[w])
  <2>1. passes' = [passes EXCEPT ![n] = @ + 1]
    BY <1>1, <1>9 DEF Judge
  <2>2. p = grant[n].payload /\ job[w].rec.expires = Expires(n)
    BY <1>1, <1>9 DEF Accepts, GateInv, RecordsAreFaithful, Faithful, Judge, At
  <2>3. ~Ledger!Expired(n)
    <3>1. Sec(now) \in Nat /\ Expires(n) \in Nat
      <4>1. grant[n] # Absent
        BY <1>1, <1>2 DEF GateInv, TokenInv, UndrawnIsNowhere, Claiming, Deciding, At
      <4>2. now \in Nat /\ grant[n].at \in Nat
        BY <1>1, <4>1 DEF GateInv, GateTypeOK, Grants
      <4> QED
        BY <4>2, SecType, GateConstants DEF GateConstants, Expires
    <3>2. Sec(now) <= Expires(n)
      BY <1>9, <2>2 DEF Accepts
    <3> QED
      BY <3>1, <3>2 DEF Ledger!Expired, Ledger!Sec, Sec, Expires
  <2>4. Ledger!Pass(n, p)
    BY <1>4, <1>7, <2>1, <2>2, <2>3 DEF Ledger!Pass
  <2> QED
    BY <1>1, <2>4
<1> QED
  BY <1>8, <1>9

LEMMA ClaimUnlinked ==
  ASSUME GateInv, NEW w \in Workers, UnlinkClaimed(w)
  PROVE  UNCHANGED Ledger!ledger
<1> USE DEF GateInv, GateTypeOK, UnlinkClaimed, Become, At, Unlink, Put
<1>1. PICK n \in Nonces : n = job[w].nonce
  BY DEF Jobs, Idle
<1>2. \A m \in Nonces : /\ ~Minting(w, m) /\ ~Minting(w, m)'
                        /\ ~Deciding(w, m) /\ ~Deciding(w, m)'
  BY DEF Minting, Deciding, Idle
<1>3. \A m \in Nonces \ {n} : Status(m)' = Status(m)
  BY <1>1, <1>2, OthersKeepTheirs
<1>4. \A v \in Workers \ {w} : ~Claiming(v, n) /\ job'[v] = job[v]
  BY <1>1 DEF TokenInv, ClaimedByOne, Claiming
<1>5. \A v \in Workers : (Minting(v, n)' <=> Minting(v, n)) /\ (Deciding(v, n)' <=> Deciding(v, n))
  BY <1>1, <1>2, <1>4 DEF Minting, Claiming, Deciding
<1>6. Status(n)' = Status(n)
  BY <1>1, <1>5, SameStatus DEF Live
<1> QED
  BY <1>3, <1>6, Stutters

\* what a reaper removes is expired, or does not count any more
LEMMA Reaped ==
  ASSUME GateInv, GateInv', NEW w \in Workers, ReapUnlink(w)
  PROVE  UNCHANGED Ledger!ledger \/ \E n \in Nonces : Ledger!Expire(n) \/ Ledger!Burn(n)
<1>1. PICK n \in Nonces : n = job[w].nonce
  BY DEF GateInv, GateTypeOK, Jobs, Idle, ReapUnlink, At
<1>2. \A v \in Workers \ {w} : job'[v] = job[v]
  BY DEF ReapUnlink, ReapOn, Become, GateInv, GateTypeOK
<1>3. /\ UNCHANGED <<now, grant, passes, damaged>>
      /\ \A m \in Nonces \ {n} : json'[m] = json[m] /\ claimed'[m] = claimed[m]
      /\ job[w].file = "json" => json'[n] = Absent /\ claimed'[n] = claimed[n]
      /\ job[w].file # "json" => claimed'[n] = Absent /\ json'[n] = json[n]
  BY <1>1 DEF ReapUnlink, Unlink, Put, GateInv, GateTypeOK
<1>4. \A m \in Nonces : /\ ~Minting(w, m) /\ ~Minting(w, m)'
                        /\ ~Deciding(w, m) /\ ~Deciding(w, m)'
  BY DEF GateInv, GateTypeOK, ReapUnlink, ReapOn, Become, At, Minting, Deciding
<1>5. \A m \in Nonces \ {n} : Status(m)' = Status(m)
  BY <1>1, <1>2, <1>3, <1>4, OthersKeepTheirs
<1>6. \A v \in Workers : /\ Minting(v, n)' <=> Minting(v, n)
                         /\ Deciding(v, n)' => Deciding(v, n)
                         /\ job[w].file = "json" => (Deciding(v, n) => Deciding(v, n)')
  BY <1>1, <1>2, <1>3, <1>4 DEF Minting, Deciding, At
<1>7. Live(n)' => Live(n)
  BY <1>1, <1>3 DEF Live
<1>8. CASE Live(n)' <=> Live(n)
  <2>1. CASE \A v \in Workers : Deciding(v, n) => Deciding(v, n)'
    <3>1. Status(n)' = Status(n)
      BY <1>1, <1>3, <1>6, <1>8, <2>1, SameStatus
    <3> QED
      BY <1>3, <1>5, <3>1, Stutters
  <2>2. CASE \E v \in Workers : Deciding(v, n) /\ ~Deciding(v, n)'
    <3>1. Ledger!Move(n, "claimed", "spent")
      BY <1>1, <1>3, <1>5, <1>6, <1>7, <2>2, Decided
    <3>2. Ledger!Burn(n)
      BY <1>3, <3>1 DEF Ledger!Burn
    <3> QED
      BY <1>1, <3>2
  <2> QED
    BY <2>1, <2>2
<1>9. CASE Live(n) /\ ~Live(n)'
  <2>1. job[w].file = "json"
    BY <1>1, <1>3, <1>9 DEF Live
  <2>2. \A v \in Workers : ~Minting(v, n) /\ ~Deciding(v, n)
    BY <1>1, <1>9 DEF GateInv, TokenInv, MintedByOne, IssuedIsUnused, Live, Claiming, Deciding, At
  <2>3. grant[n] # Absent
    BY <1>1, <1>9 DEF GateInv, TokenInv, UndrawnIsNowhere, Live
  <2>4. Status(n) = "live" /\ Status(n)' = "spent"
    BY <1>1, <1>3, <1>6, <1>9, <2>2, <2>3, StatusIs, StatusBecomes DEF GateInv
  <2>5. Ledger!Move(n, "live", "spent")
    BY <1>1, <1>5, <2>4, Moves
  <2>6. Ledger!Expired(n)
    <3>1. job[w].snap > Expires(n) /\ job[w].snap <= Sec(now)
      BY <1>1, <1>9 DEF GateInv, ReapersAreRight, ReapUnlink, At, Live
    <3>2. job[w].snap \in Nat
      BY DEF GateInv, GateTypeOK, Jobs, Idle, ReapUnlink, At
    <3>3. now \in Nat /\ grant[n].at \in Nat
      BY <1>1, <2>3 DEF GateInv, GateTypeOK, Grants
    <3>4. Sec(now) \in Nat /\ Expires(n) \in Nat
      BY <3>3, SecType, GateConstants DEF GateConstants, Expires
    <3>5. Sec(now) > Expires(n)
      BY <3>1, <3>2, <3>4
    <3> QED
      BY <3>5 DEF Ledger!Expired, Ledger!Sec, Sec, Expires
  <2>7. Ledger!Expire(n)
    BY <1>3, <2>5, <2>6 DEF Ledger!Expire
  <2> QED
    BY <1>1, <2>7
<1> QED
  BY <1>7, <1>8, <1>9

LEMMA Killed ==
  ASSUME GateInv, GateInv', NEW w \in Workers, Crash(w)
  PROVE  \/ UNCHANGED Ledger!ledger
         \/ \E n \in Nonces : Ledger!Issue(n) \/ Ledger!Abandon(n) \/ Ledger!Burn(n)
<1>1. /\ job'[w] = Idle /\ \A v \in Workers \ {w} : job'[v] = job[v]
      /\ UNCHANGED <<now, json, claimed, damaged, grant, passes>>
  BY DEF Crash, Become, dir, GateInv, GateTypeOK
<1>2. \A m \in Nonces : ~Minting(w, m)' /\ ~Deciding(w, m)'
  BY <1>1 DEF Minting, Deciding, At, Idle
<1>3. CASE \E n \in Nonces : Minting(w, n)
  <2>1. PICK n \in Nonces : Minting(w, n)
    BY <1>3
  <2> QED
    BY <1>1, <2>1, MintEnded
<1>4. CASE \E n \in Nonces : Deciding(w, n)
  <2>1. PICK n \in Nonces : Deciding(w, n)
    BY <1>4
  <2>2. \A m \in Nonces : ~Minting(w, m) /\ (m # n => ~Deciding(w, m))
    BY <2>1 DEF Minting, Deciding, At
  <2>3. \A m \in Nonces \ {n} : Status(m)' = Status(m)
    BY <1>1, <1>2, <2>2, OthersKeepTheirs
  <2>4. \A v \in Workers : /\ Minting(v, n)' => Minting(v, n)
                           /\ Deciding(v, n)' => Deciding(v, n)
    BY <1>1, <1>2 DEF Minting, Deciding, At
  <2>5. Ledger!Move(n, "claimed", "spent")
    BY <1>1, <1>2, <2>1, <2>3, <2>4, Decided DEF Live
  <2> QED
    BY <1>1, <2>5 DEF Ledger!Burn
<1>5. CASE \A n \in Nonces : ~Minting(w, n) /\ ~Deciding(w, n)
  BY <1>1, <1>2, <1>5, QuietStatus
<1> QED
  BY <1>3, <1>4, <1>5

LEMMA Damaged ==
  ASSUME GateInv, GateInv', NEW n \in Nonces, Damage(n)
  PROVE  UNCHANGED Ledger!ledger \/ Ledger!Damage(n) \/ Ledger!Burn(n)
<1>1. /\ n \in Fragile /\ damaged' = damaged \cup {n}
      /\ UNCHANGED <<now, json, claimed, job, grant, passes>>
  BY DEF Damage
<1>2. \A m \in Nonces \ {n} : Status(m)' = Status(m)
  <2> SUFFICES ASSUME NEW m \in Nonces \ {n} PROVE Status(m)' = Status(m)
    OBVIOUS
  <2>1. /\ Live(m)' <=> Live(m)
        /\ \A v \in Workers : /\ Minting(v, m)' <=> Minting(v, m)
                              /\ Deciding(v, m)' <=> Deciding(v, m)
    BY <1>1 DEF Live, Minting, Deciding, At
  <2> QED
    BY <1>1, <2>1, SameStatus
<1>3. /\ ~Live(n)'
      /\ \A v \in Workers : /\ Minting(v, n)' <=> Minting(v, n)
                            /\ Deciding(v, n)' => Deciding(v, n)
  BY <1>1 DEF Live, Minting, Deciding, At
<1>4. CASE Live(n)
  <2>1. /\ grant[n] # Absent
        /\ \A v \in Workers : ~Minting(v, n) /\ ~Deciding(v, n)
    BY <1>4 DEF GateInv, TokenInv, UndrawnIsNowhere, MintedByOne, IssuedIsUnused, Live,
                Claiming, Deciding, At
  <2>2. Status(n) = "live" /\ Status(n)' = "spent"
    BY <1>1, <1>3, <1>4, <2>1, StatusIs, StatusBecomes DEF GateInv
  <2>3. Ledger!Move(n, "live", "spent")
    BY <1>2, <2>2, Moves
  <2> QED
    BY <1>1, <2>3 DEF Ledger!Damage
<1>5. CASE ~Live(n) /\ \A v \in Workers : Deciding(v, n) => Deciding(v, n)'
  <2>1. Status(n)' = Status(n)
    BY <1>1, <1>3, <1>5, SameStatus
  <2> QED
    BY <1>1, <1>2, <2>1, Stutters
<1>6. CASE \E v \in Workers : Deciding(v, n) /\ ~Deciding(v, n)'
  <2>1. Ledger!Move(n, "claimed", "spent")
    BY <1>1, <1>2, <1>3, <1>6, Decided
  <2> QED
    BY <1>1, <2>1 DEF Ledger!Burn
<1> QED
  BY <1>4, <1>5, <1>6

--------------------------------------------------------------------------------
(* The theorem *)

\* a process that reaps and removes nothing
LEMMA ReapersLook ==
  ASSUME GateInv, NEW w \in Workers, ReapNext(w), ~ReapUnlink(w)
  PROVE  UNCHANGED Ledger!ledger
<1> USE DEF GateInv, GateTypeOK, Become, At, dir, ReapOn
<1>1. /\ job[w].pc \in {"idle", "reap_list", "reap_next", "reap_read"}
      /\ job'[w].pc \in {"idle", "reap_list", "reap_next", "reap_read", "reap_unlink"}
      /\ \A v \in Workers \ {w} : job'[v] = job[v]
      /\ UNCHANGED <<now, json, claimed, damaged, grant, passes>>
  <2>1. CASE ReapStart(w) \/ ReapList(w) \/ ReapDone(w)
    BY <2>1 DEF ReapStart, ReapList, ReapDone, Idle
  <2>2. ASSUME NEW n \in Nonces, NEW name \in Names, ReapSkip(w, n, name) PROVE <1>1!:
    BY <2>2 DEF ReapSkip
  <2>3. ASSUME NEW n \in Nonces, ReapClaim(w, n) \/ ReapOpen(w, n) PROVE <1>1!:
    BY <2>3 DEF ReapClaim, ReapOpen
  <2>4. CASE ReapRead(w)
    BY <2>4 DEF ReapRead
  <2> QED
    BY <2>1, <2>2, <2>3, <2>4 DEF ReapNext
<1>2. \A m \in Nonces : /\ ~Minting(w, m) /\ ~Minting(w, m)'
                        /\ ~Deciding(w, m) /\ ~Deciding(w, m)'
  BY <1>1 DEF Minting, Deciding
<1> QED
  BY <1>1, <1>2, QuietStatus

LEMMA MintStep ==
  ASSUME GateInv, GateInv', NEW w \in Workers, MintNext(w)
  PROVE  [Ledger!Next]_(Ledger!ledger)
<1>1. CASE \E n \in Nonces, p \in Payloads : MintDraw(w, n, p)
  BY <1>1, MintDrawn DEF Ledger!Next
<1>2. CASE MintWrite(w)
  <2> USE DEF GateInv, GateTypeOK, MintWrite, Become, At, Put
  <2>1. \A m \in Nonces : /\ Minting(w, m)' <=> Minting(w, m)
                          /\ ~Deciding(w, m) /\ ~Deciding(w, m)'
    BY <1>2 DEF Minting, Deciding
  <2> QED
    BY <1>2, <2>1, QuietStatus
<1>3. CASE MintPublish(w) \/ MintFail(w)
  <2>1. PICK n \in Nonces : n = job[w].nonce
    BY <1>3 DEF GateInv, GateTypeOK, Jobs, Idle, MintPublish, MintFail, At
  <2>2. /\ Minting(w, n) /\ job'[w] = Idle
        /\ \A v \in Workers \ {w} : job'[v] = job[v]
        /\ \A m \in Nonces \ {n} : json'[m] = json[m]
        /\ UNCHANGED <<now, claimed, damaged, grant, passes>>
    BY <1>3, <2>1 DEF GateInv, GateTypeOK, MintPublish, MintFail, Become, At, Rename, Unlink,
                      Put, Minting
  <2> QED
    BY <2>2, MintEnded DEF Ledger!Next
<1> QED
  BY <1>1, <1>2, <1>3 DEF MintNext

LEMMA LedgerStep ==
  ASSUME GateInv, GateInv', [Next]_vars
  PROVE  [Ledger!Next]_(Ledger!ledger)
<1>1. ASSUME NEW w \in Workers, ConsumeNext(w) PROVE [Ledger!Next]_(Ledger!ledger)
  BY <1>1, Claimed, Read, Judged, ClaimUnlinked DEF ConsumeNext, Ledger!Next
<1>2. ASSUME NEW w \in Workers, ReapNext(w) PROVE [Ledger!Next]_(Ledger!ledger)
  BY <1>2, Reaped, ReapersLook DEF Ledger!Next
<1>3. ASSUME NEW w \in Workers, Crash(w) PROVE [Ledger!Next]_(Ledger!ledger)
  BY <1>3, Killed DEF Ledger!Next
<1>4. ASSUME NEW n \in Nonces, Damage(n) PROVE [Ledger!Next]_(Ledger!ledger)
  BY <1>4, Damaged DEF Ledger!Next
<1>5. CASE Tick
  <2>1. now' = now + 1 /\ UNCHANGED <<json, claimed, damaged, job, grant, passes>>
    BY <1>5 DEF Tick, dir
  <2>2. \A n \in Nonces : Status(n)' = Status(n)
    BY <2>1 DEF Status, Drafting, Undecided, Minting, At
  <2> QED
    BY <2>1, <2>2 DEF Ledger!Next, Ledger!Tick
<1>6. CASE UNCHANGED vars
  <2>1. \A n \in Nonces : Status(n)' = Status(n)
    BY <1>6 DEF vars, dir, Status, Drafting, Undecided, Minting, At
  <2> QED
    BY <1>6, <2>1, Stutters DEF vars
<1> QED
  BY <1>1, <1>2, <1>3, <1>4, <1>5, <1>6, MintStep DEF Next, WorkerNext

LEMMA LedgerInit ==
  ASSUME Init
  PROVE  Ledger!Init
<1>1. \A n \in Nonces : Status(n) = "unknown"
  BY DEF Init, Status, Drafting, Undecided, Minting, At
<1> QED
  BY <1>1 DEF Init, Ledger!Init

(* The gate implements the ledger of nonces: whatever processes race for a  *)
(* nonce, reap or die, between any two system calls, what becomes of it is  *)
(* what the ledger allows.                                                  *)
THEOREM GateImplementsLedger == Spec => ImplementsLedger
<1>1. Init => Ledger!Init
  BY LedgerInit
<1>2. GateInv /\ GateInv' /\ [Next]_vars => [Ledger!Next]_(Ledger!ledger)
  BY LedgerStep
<1> QED
  BY <1>1, <1>2, GateInvHolds, PTL DEF Spec, ImplementsLedger, Ledger!Spec
===============================================================================
