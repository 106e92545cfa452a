--------------------------- MODULE RailwayReplies ---------------------------
(* Replies of Railway, as parts that the instances for TLC put together.   *)
EXTENDS RailwayReply

Zoned(age) == [form |-> "zoned", age |-> age]

Deployed(id, status, age, instances) ==
  [id |-> id, status |-> status, created |-> Zoned(age), updated |-> Zoned(age),
   stopped |-> FALSE, instances |-> instances]

Serving(id) == Deployed(id, "SUCCESS", 30, {"RUNNING"})
Building(id) == Deployed(id, "BUILDING", 2, {})

About(active, latest) ==
  [shape |-> TRUE, mismatch |-> {}, active |-> active, latest |-> latest]
=============================================================================
