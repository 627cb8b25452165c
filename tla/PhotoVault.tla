----------------------------- MODULE PhotoVault -----------------------------
(***************************************************************************)
(* What the staging service promises of a photo, without tables, tokens,   *)
(* locks or a worker: a kept photo has its bytes while it is alive, it     *)
(* dies once and for all, its bytes go only when it is not alive, and a    *)
(* reader who was not there while it was alive gets nothing.               *)
(*                                                                         *)
(* PhotoLifecycle implements this (VaultSpec there).                       *)
(***************************************************************************)
CONSTANTS Photos, Readers, Nobody

VARIABLES
  life,    (* of each photo: not kept (yet), alive, dead                  *)
  bytes,   (* photos whose bytes are stored                               *)
  reader   (* what each reader is doing, and with which photo             *)

vaultVars == <<life, bytes, reader>>

Idle == [at |-> "idle", photo |-> Nobody]
Refused == [at |-> "refused", photo |-> Nobody]

VaultInit ==
  /\ life = [p \in Photos |-> "none"]
  /\ bytes = {}
  /\ reader = [w \in Readers |-> Idle]

(* Bytes arrive before the photo is kept, and may be dropped instead.      *)
Store(p) ==
  /\ life[p] = "none"
  /\ bytes' = bytes \cup {p}
  /\ UNCHANGED <<life, reader>>

Keep(p) ==
  /\ life[p] = "none" /\ p \in bytes
  /\ life' = [life EXCEPT ![p] = "alive"]
  /\ UNCHANGED <<bytes, reader>>

(* A delete takes effect, or the photo expires.                            *)
Kill(p) ==
  /\ life[p] = "alive"
  /\ life' = [life EXCEPT ![p] = "dead"]
  /\ UNCHANGED <<bytes, reader>>

Erase(p) ==
  /\ life[p] # "alive"
  /\ bytes' = bytes \ {p}
  /\ UNCHANGED <<life, reader>>

StartReading(w, p) ==
  /\ reader[w] = Idle /\ life[p] = "alive"
  /\ reader' = [reader EXCEPT ![w] = [at |-> "reading", photo |-> p]]
  /\ UNCHANGED <<life, bytes>>

(* The photo may die, and even lose its bytes, while it is being read.     *)
Serve(w) ==
  /\ reader[w].at = "reading" /\ reader[w].photo \in bytes
  /\ reader' = [reader EXCEPT ![w].at = "served"]
  /\ UNCHANGED <<life, bytes>>

(* Readers may be turned away at any time, all of them by a crash.         *)
TurnAway(ws) ==
  /\ \A w \in ws : reader[w].at \in {"idle", "reading"}
  /\ reader' = [w \in Readers |-> IF w \in ws THEN Refused ELSE reader[w]]
  /\ UNCHANGED <<life, bytes>>

VaultNext ==
  \/ \E p \in Photos : Store(p) \/ Keep(p) \/ Kill(p) \/ Erase(p)
  \/ \E w \in Readers, p \in Photos : StartReading(w, p)
  \/ \E w \in Readers : Serve(w)
  \/ \E ws \in SUBSET Readers : TurnAway(ws)

VaultSpec == VaultInit /\ [][VaultNext]_vaultVars
=============================================================================
