------------------------------ MODULE MCRunJob ------------------------------
(* Instances of RunJob: two jobs, the first with mail or with mail on error,  *)
(* the second with a mail in any case or with none, as its output goes to    *)
(* the terminal.                                                             *)
EXTENDS RunJob

Mail      == [mail |-> TRUE, zerolength |-> FALSE, erroronly |-> FALSE, stdout |-> FALSE]
OnError   == [Mail EXCEPT !.erroronly = TRUE]
AnyOutput == [Mail EXCEPT !.zerolength = TRUE]
ToStdout  == [Mail EXCEPT !.stdout = TRUE]

MCKinds == {[j \in Jobs |-> IF j = 1 THEN a ELSE b] :
                a \in {Mail, OnError}, b \in {AnyOutput, ToStdout}}
=============================================================================
