-------------------------------- MODULE MCApp --------------------------------
(* An instance of App for TLC.  A session uses the create page, or looks   *)
(* photos up, or reads the privacy page; each may pass through the others. *)
EXTENDS App, TLC

(* A permit, which is found under "All" kinds only, a template that locks  *)
(* the composition, and one that is not active.                            *)
Passport(status, crop) ==
  [jurisdiction |-> "US", documentType |-> "passport", channel |-> "paper",
   status |-> status, crop |-> crop]
Catalogue ==
  [free |-> [Passport("active", "warn") EXCEPT !.documentType = "permit"],
   locked |-> Passport("active", "forbidden"),
   pending |-> [Passport("reference_only", "allowed") EXCEPT !.jurisdiction = "FI"]]
Revisions == DOMAIN Catalogue

Photo == [format |-> "png", bytes |-> 1, parts |-> <<>>, inWindow |-> 0,
          pixels |-> Size(1, 1), decodes |-> {"plain"}]

Contents == [f \in Files |-> Photo]

Symmetry == Permutations(Files \ Captures) \cup Permutations(Resolves)

OneFlow ==
  LET creates == visit > 0
      looksUp == key # Partial \/ \E i \in Resolves : resolving[i].pc # "idle"
      reads == cache["policy"] # "none"
  IN  ~(creates /\ looksUp) /\ ~(creates /\ reads) /\ ~(looksUp /\ reads)
=============================================================================
