--------------------------- MODULE MCPublication ---------------------------
(* Publication with a published revision and one that template_tools new   *)
(* may add, and contents that may be active, that may not (the skeleton),  *)
(* and whose byte limit is unresolved.                                     *)
EXTENDS Publication, TLC

Content(text, valid, file, resolved) ==
  [text |-> text, valid |-> valid, file |-> file, resolved |-> resolved]

Blank == Content("skeleton", TRUE, FALSE, TRUE)
First == Content("first", TRUE, TRUE, TRUE)
SomeContents == {Blank, First, Content("second", TRUE, TRUE, TRUE),
                 Content("third", TRUE, TRUE, FALSE)}

MCInit == Init /\ files[1] = First /\ files[2] = None /\ pubs[1].hash = First /\ pubs[1].status = "active"
MCSpec == MCInit /\ [][Next]_vars

ClientsAreAlike == Permutations(Clients)
=============================================================================
