--------------------------- MODULE MCGamePipeline ---------------------------
(***************************************************************************)
(* The connections of GamePipeline as constants.                           *)
(***************************************************************************)
EXTENDS GamePipeline

MCConn == { Probe(g) : g \in Game } \cup { Event(g) : g \in Game } \cup {Direct}

MCPatient == MCConn \ {Direct}

=============================================================================
