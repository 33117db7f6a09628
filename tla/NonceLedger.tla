------------------------------ MODULE NonceLedger ------------------------------
(***************************************************************************)
(* What the send gate of the helper (bin/send_gate.py) promises, without   *)
(* the files, the worker processes and the system calls it is built from:  *)
(* a ledger of nonces.  A nonce is drafted with the payload it is bound    *)
(* to, becomes live when the preview hands it out, is claimed by one send  *)
(* attempt, and is then spent for good.  The claim passes the gate at most *)
(* once, for the payload that was previewed, before the nonce expires.     *)
(* SendGate implements this module; Bridge is built on it.                 *)
(***************************************************************************)
EXTENDS Naturals

CONSTANTS Nonces,    \* the nonces secrets.token_urlsafe may return
          Payloads,  \* the (to, text, service) triples, as preview_hash sees them
          NoGrant,   \* what a nonce nobody has drafted is bound to
          Fragile,   \* nonces whose record the disk may lose
          TTL,       \* SEND_NONCE_TTL, in seconds
          Res        \* ticks of the clock per second

VARIABLES now,     \* time.time(), in ticks
          status,  \* the nonce's place in its life
          grant,   \* the payload it is bound to, and when
          passes   \* how many sends it has let through

ledger == <<now, status, grant, passes>>

Sec(t) == t \div Res   \* int(time.time())

Statuses == {"unknown", "drafted", "live", "claimed", "spent"}

Grants == [payload : Payloads, at : Nat]

(* Past its expires_at, int(time.time()) + SEND_NONCE_TTL at the draft.     *)
Expired(n) == Sec(now) > Sec(grant[n].at) + TTL

Init ==
    /\ now = 0
    /\ status = [n \in Nonces |-> "unknown"]
    /\ grant = [n \in Nonces |-> NoGrant]
    /\ passes = [n \in Nonces |-> 0]

Tick == now' = now + 1 /\ UNCHANGED <<status, grant, passes>>

Move(n, from, to) == status[n] = from /\ status' = [status EXCEPT ![n] = to]

(* send_preview chose a nonce and bound it to the payload.                  *)
Draft(n, p) ==
    /\ Move(n, "unknown", "drafted")
    /\ grant' = [grant EXCEPT ![n] = [payload |-> p, at |-> now]]
    /\ UNCHANGED <<now, passes>>

(* The nonce is on disk: a send may present it from now on.                 *)
Issue(n) == Move(n, "drafted", "live") /\ UNCHANGED <<now, grant, passes>>

(* The preview failed or its process died.                                  *)
Abandon(n) == Move(n, "drafted", "spent") /\ UNCHANGED <<now, grant, passes>>

(* One send attempt takes the nonce out of circulation.                     *)
Claim(n) == Move(n, "live", "claimed") /\ UNCHANGED <<now, grant, passes>>

(* The attempt clears the gate: right payload, in time, once.               *)
Pass(n, p) ==
    /\ Move(n, "claimed", "spent")
    /\ p = grant[n].payload
    /\ ~Expired(n)
    /\ passes' = [passes EXCEPT ![n] = @ + 1]
    /\ UNCHANGED <<now, grant>>

(* The attempt fails, or its process dies.                                  *)
Burn(n) == Move(n, "claimed", "spent") /\ UNCHANGED <<now, grant, passes>>

(* A live nonce leaves the ledger without an attempt only once expired ...  *)
Expire(n) ==
    /\ Move(n, "live", "spent")
    /\ Expired(n)
    /\ UNCHANGED <<now, grant, passes>>

(* ... or when its record is damaged on disk.                               *)
Damage(n) ==
    /\ n \in Fragile
    /\ Move(n, "live", "spent")
    /\ UNCHANGED <<now, grant, passes>>

Next ==
    \/ Tick
    \/ \E n \in Nonces :
          \/ Issue(n) \/ Abandon(n) \/ Claim(n) \/ Burn(n) \/ Expire(n) \/ Damage(n)
          \/ \E p \in Payloads : Draft(n, p) \/ Pass(n, p)

Spec == Init /\ [][Next]_ledger

--------------------------------------------------------------------------------

(* Type correctness of the ledger.                                          *)
LedgerTypeOK ==
    /\ now \in Nat
    /\ status \in [Nonces -> Statuses]
    /\ grant \in [Nonces -> Grants \cup {NoGrant}]
    /\ passes \in [Nonces -> Nat]

(* A nonce lets at most one send through (consume_send_nonce is one-shot),  *)
(* and only a nonce that is out of circulation has let one through.         *)
AtMostOnePass ==
    \A n \in Nonces : passes[n] <= 1 /\ (passes[n] = 1 => status[n] = "spent")
================================================================================
