----------------------------- MODULE RateLimit -----------------------------
(***************************************************************************)
(* The rate limiter (backend/app/rate_limit.py) as resolve uses it         *)
(* (routers/retrievals.py): one count per client address and hour, one     *)
(* count of failures per KEY and quarter of an hour.                       *)
(*                                                                         *)
(* check commits its increment and reads the count back in a statement of  *)
(* its own, peek only reads; each reads the clock for itself.  resolve     *)
(* runs in a thread pool, so every commit and every SELECT is a step.      *)
(* Both windows have the same width here.                                  *)
(***************************************************************************)
EXTENDS Integers, FiniteSets

CONSTANTS
  Requests,   (* resolve requests                                         *)
  Ips,        (* client addresses                                         *)
  Codes,       (* KEYs, issued or not yet issued                           *)
  Malformed,  (* the bucket of input that is no KEY                       *)
  IpLimit,    (* resolve_ip_limit                                         *)
  FailLimit,  (* resolve_fail_limit                                       *)
  Width,      (* width of a window, in ticks                              *)
  MaxTime     (* bound on the clock                                       *)

ASSUME LimitAssumption ==
  /\ IsFiniteSet(Requests) /\ Malformed \notin Codes
  /\ IpLimit \in Nat /\ FailLimit \in Nat /\ Width \in Nat \ {0} /\ MaxTime \in Nat

VARIABLES
  now,        (* the clock                                                *)
  ipCount,    (* rate_limit_counts of scope resolve-ip                    *)
  failCount,  (* rate_limit_counts of scope resolve-fail                  *)
  life,       (* whether each KEY retrieves a photo                       *)
  pc,         (* where each request is                                    *)
  req,        (* its address, its KEY, and the window check computed      *)
  ord,        (* which attempt of its address and window it was (history) *)
  failed      (* the windows it recorded a failure in (history)           *)

limitVars == <<now, ipCount, failCount, life, pc, req, ord, failed>>

Start(t) == t - (t % Width)
Windows == {Start(t) : t \in 0 .. MaxTime}
Buckets == Codes \cup {Malformed}

LimitInit ==
  /\ now = 0
  /\ ipCount = [i \in Ips |-> [t \in Windows |-> 0]]
  /\ failCount = [k \in Buckets |-> [t \in Windows |-> 0]]
  /\ life = [k \in Codes |-> "none"]
  /\ pc = [r \in Requests |-> "idle"]
  /\ req \in [Requests -> [ip : Ips, key : Buckets, window : {0}]]
  /\ ord = [r \in Requests |-> 0]
  /\ failed = [r \in Requests |-> {}]

-----------------------------------------------------------------------------
Goto(r, from, to) == pc[r] = from /\ pc' = [pc EXCEPT ![r] = to]

(* check for the client address: the clock is read, and names the window.  *)
Arrive(r) ==
  /\ Goto(r, "idle", "record")
  /\ req' = [req EXCEPT ![r].window = Start(now)]
  /\ UNCHANGED <<now, ipCount, failCount, life, ord, failed>>

(* The upsert of _record, and its commit.                                  *)
Record(r) ==
  LET i == req[r].ip  t == req[r].window IN
  /\ Goto(r, "record", "reread")
  /\ ipCount' = [ipCount EXCEPT ![i][t] = @ + 1]
  /\ ord' = [ord EXCEPT ![r] = ipCount[i][t] + 1]
  /\ UNCHANGED <<now, failCount, life, req, failed>>

(* The SELECT of _record: later attempts may be counted in it.             *)
(* Mutant: off by one.                                                     *)
WithinIpLimitPlusOne(r) == ipCount[req[r].ip][req[r].window] <= IpLimit + 1
WithinIpLimit(r) == ipCount[req[r].ip][req[r].window] <= IpLimit

Reread(r) ==
  /\ Goto(r, "reread", IF WithinIpLimit(r) THEN "lookup" ELSE "limited")
  /\ UNCHANGED <<now, ipCount, failCount, life, req, ord, failed>>

(* normalize_key, then the photo of the KEY; both failures are recorded.   *)
Available(r) == req[r].key \in Codes /\ life[req[r].key] = "alive"

Lookup(r) ==
  /\ Goto(r, "lookup", IF Available(r) THEN "gate" ELSE "fail")
  /\ UNCHANGED <<now, ipCount, failCount, life, req, ord, failed>>

(* check for the KEY: what it returns is not looked at.                    *)
RecordFailure(r) ==
  LET t == Start(now) IN
  /\ Goto(r, "fail", "unavailable")
  /\ failCount' = [failCount EXCEPT ![req[r].key][t] = @ + 1]
  /\ failed' = [failed EXCEPT ![r] = @ \cup {t}]
  /\ UNCHANGED <<now, ipCount, life, req, ord>>

(* Mutant: the gate looks at the window in which the request arrived.      *)
GateOfArrival(r) ==
  /\ Goto(r, "gate", IF failCount[req[r].key][req[r].window] >= FailLimit
                     THEN "gated" ELSE "granted")
  /\ UNCHANGED <<now, ipCount, failCount, life, req, ord, failed>>

(* peek: the photo is there, but the KEY has failed too often.             *)
Gate(r) ==
  /\ Goto(r, "gate", IF failCount[req[r].key][Start(now)] >= FailLimit
                     THEN "gated" ELSE "granted")
  /\ UNCHANGED <<now, ipCount, failCount, life, req, ord, failed>>

(* A database error on the way: a 500.                                     *)
Error(r) ==
  /\ \E from \in {"record", "reread", "lookup", "fail", "gate"} : Goto(r, from, "error")
  /\ UNCHANGED <<now, ipCount, failCount, life, req, ord, failed>>

(* A photo is saved under a KEY; it is deleted or it expires.              *)
LifeGoesOn(k) ==
  /\ \/ life[k] = "none" /\ life' = [life EXCEPT ![k] = "alive"]
     \/ life[k] = "alive" /\ life' = [life EXCEPT ![k] = "dead"]
  /\ UNCHANGED <<now, ipCount, failCount, pc, req, ord, failed>>

Tick ==
  /\ now < MaxTime
  /\ now' = now + 1
  /\ UNCHANGED <<ipCount, failCount, life, pc, req, ord, failed>>

LimitNext ==
  \/ \E r \in Requests :
       \/ Arrive(r) \/ Record(r) \/ Reread(r) \/ Lookup(r)
       \/ RecordFailure(r) \/ Gate(r) \/ Error(r)
  \/ \E k \in Codes : LifeGoesOn(k)
  \/ Tick

LimitSpec == LimitInit /\ [][LimitNext]_limitVars

-----------------------------------------------------------------------------
(* Properties.                                                             *)

LimitTypeOK ==
  /\ now \in 0 .. MaxTime
  /\ ipCount \in [Ips -> [Windows -> Nat]]
  /\ failCount \in [Buckets -> [Windows -> Nat]]
  /\ life \in [Codes -> {"none", "alive", "dead"}]
  /\ pc \in [Requests -> {"idle", "record", "reread", "lookup", "fail", "gate", "limited",
                          "unavailable", "gated", "granted", "error"}]
  /\ req \in [Requests -> [ip : Ips, key : Buckets, window : Windows]]
  /\ ord \in [Requests -> Nat]
  /\ failed \in [Requests -> SUBSET Windows]

Passed == {"lookup", "fail", "gate", "unavailable", "gated", "granted"}
SameBucket(q, r) == req[q].ip = req[r].ip /\ req[q].window = req[r].window

(* However the requests of one address interleave, at most IpLimit of them *)
(* get past the limiter in one window.                                     *)
IpLimitHolds ==
  \A i \in Ips, t \in Windows :
    Cardinality({r \in Requests : pc[r] \in Passed /\ req[r].ip = i /\ req[r].window = t})
      <= IpLimit

Failures(k, t) == {q \in Requests : req[q].key = k /\ t \in failed[q]}

(* The gate closes exactly when FailLimit resolves of this KEY have failed *)
(* in the current window: successes do not count, nor does another KEY, nor*)
(* an older window.                                                        *)
GateCountsFailures ==
  [][\A r \in Requests : pc[r] = "gate" /\ pc'[r] \in {"gated", "granted"} =>
       (pc'[r] = "gated" <=> Cardinality(Failures(req[r].key, Start(now))) >= FailLimit)]_limitVars
=============================================================================
