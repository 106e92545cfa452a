--------------------------- MODULE MCRailwayClient ---------------------------
(* Instances of RailwayClient for TLC.                                     *)
EXTENDS RailwayClient, RailwayReplies

Garbled == [form |-> "garbled", age |-> 0]
Naive == [form |-> "zoneless", age |-> 2]

(* Every mix of the parts of a reply that parsing tells apart.             *)
Listed ==
  {[Serving("d1") EXCEPT !.stopped = stopped, !.instances = instances, !.id = id] :
     stopped \in BOOLEAN, instances \in {{}, {"CRASHED"}, {"CRASHED", "RUNNING"}},
     id \in {"d1", None}}

MCReplies ==
  {About(active, latest) :
     active \in {<<>>} \cup {<<d>> : d \in Listed},
     latest \in {None, Serving("d2"), Building("d2"),
                 [Building("d2") EXCEPT !.updated = Garbled, !.id = None],
                 [Building("d2") EXCEPT !.created = Naive],
                 [Serving("d2") EXCEPT !.status = "unheard of"]}}
    \cup {[About(<<Serving("d1")>>, Serving("d1")) EXCEPT !.mismatch = {field}] :
            field \in IdFields}
    \cup {[About(<<>>, None) EXCEPT !.shape = FALSE]}
=============================================================================
