------------------------------ MODULE MCClient ------------------------------
(* Companies of all three kinds of task type, two settings of the inputs,  *)
(* and a user who works on the data and the trace page, on the two pages   *)
(* that ask for inference, or on the log page.                             *)
EXTENDS Client

MCTaskOf == [c1 |-> "trace", c2 |-> "", c7 |-> "forecast"]
MCListings == {{}, {"c1", "c2"}, {"c1", "c2", "c7"}}
MCVisits == {{"data", "trace"}, {"trace", "prediction"}, {"log"}}
Commit(time, found) == [time |-> time, source |-> "github", found |-> found]
MCCommitLists == {<<>>, <<Commit(1, FALSE), Commit(1, TRUE)>>}

=============================================================================
