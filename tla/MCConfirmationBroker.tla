------------------------ MODULE MCConfirmationBroker ------------------------
(* Two concurrent requests: r1 can time out and be approved or denied, r2's  *)
(* asking task can be cancelled.  One append fails, the process stops once.  *)
EXTENDS ConfirmationBroker
CONSTANTS r1, r2
MCAnswers == [r \in Requests |-> IF r = r1 THEN {"approve", "deny"}
                                 ELSE {"approve"}]
=============================================================================
