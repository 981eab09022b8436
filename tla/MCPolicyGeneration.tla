------------------------- MODULE MCPolicyGeneration -------------------------
EXTENDS PolicyGeneration

Approved == <<"approve", FALSE>>
Denied == <<"deny", FALSE>>
Base == [generates |-> FALSE, mixed |-> FALSE, faults |-> FALSE, others |-> {}, calls |-> {"c1"}, sigs |-> {"s1"},
         confirms |-> {TRUE}, hooks |-> {"tool"}, answers |-> {Approved, Denied}, maxTrace |-> 20,
         repairs |-> 0, active |-> {}]

Mixed == [Base EXCEPT !.mixed = TRUE, !.calls = {"c1", "c2"}, !.confirms = BOOLEAN,
                      !.answers = {Approved, <<"cancelled", TRUE>>}, !.maxTrace = 9]
TwoThemes == [Base EXCEPT !.sigs = {"s1", "s2"}, !.maxTrace = 15]
Faulty == [Base EXCEPT !.faults = TRUE, !.others = {"runtime"}, !.hooks = {"tool", "other"},
                       !.answers = {Denied, <<"approve", TRUE>>}, !.maxTrace = 8]
Refusals == [Base EXCEPT !.others = {"unowned", "separated"}, !.confirms = BOOLEAN, !.maxTrace = 7]
Repairs == [Base EXCEPT !.generates = TRUE, !.maxTrace = 0, !.repairs = 2, !.active = {"g1"}]
Race == [Repairs EXCEPT !.repairs = 0, !.active = {"g1", "g2"}]

(* a Trace with two confirmations, for the generations                     *)
Confirmation(r, c, at) ==
  << [t |-> "start", run |-> r, call |-> c],
     [t |-> "evaluation", run |-> r, call |-> c, sig |-> "s1", confirm |-> TRUE],
     [t |-> "request", run |-> r, id |-> at, hook |-> "tool", call |-> c, sig |-> "s1"],
     [t |-> "response", run |-> r, id |-> at, decision |-> "deny", automatic |-> FALSE],
     [t |-> "end", run |-> r, call |-> c] >>

MCInit ==
  /\ setting \in {Base, Mixed, TwoThemes, Faulty, Refusals, Repairs, Race}
  /\ live = [r \in RunIds |-> [st |-> "idle", call |-> "none"]]
  /\ IF setting.generates
     THEN /\ trace = Confirmation("r1", "c1", 3) \o Confirmation("r2", "c1", 8)
          /\ truth = {[line |-> 3, run |-> "r1", sig |-> "s1", decision |-> "deny"],
                      [line |-> 8, run |-> "r2", sig |-> "s1", decision |-> "deny"]}
     ELSE trace = <<>> /\ truth = {}
  /\ GenInit

(* GenSpec from these initial states                                       *)
Spec == MCInit /\ [][GenerationNext]_allVars
=============================================================================
