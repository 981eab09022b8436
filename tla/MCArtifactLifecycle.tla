------------------------ MODULE MCArtifactLifecycle ------------------------
EXTENDS ArtifactLifecycle

Passed(ds) == {[d |-> d, st |-> "passed"] : d \in ds}
Base == [edits |-> {}, reviews |-> FALSE, clis |-> {"a"}, builtin |-> FALSE, harness |-> TRUE, inside |-> TRUE,
         src |-> [policy |-> "p1", plugin |-> "q1"], evid |-> {},
         ops |-> {"approve", "deny", "activate", "deactivate", "rollback"},
         maxActs |-> 2, maxSels |-> 2, maxFaults |-> 0]

AuthorAndReview == [Base EXCEPT !.edits = {"policy"}, !.reviews = TRUE, !.ops = {"approve", "activate"},
                                !.maxActs = 1, !.maxSels = 1]
\* failing and damaged files, without a Harness or without edits
AuthorAndFaults == [AuthorAndReview EXCEPT !.maxFaults = 1, !.harness = FALSE]
ReviewAndFaults == [AuthorAndReview EXCEPT !.maxFaults = 1, !.edits = {}]
OneOperator == [Base EXCEPT !.evid = Passed({"p1", "p2"}), !.builtin = TRUE,
                            !.ops = {"approve", "activate", "deactivate", "rollback"}]
LongHistory == [OneOperator EXCEPT !.maxActs = 1, !.maxSels = 3]
TwoOperators == [Base EXCEPT !.evid = Passed({"p1"}), !.clis = {"a", "b"},
                             !.ops = {"approve", "deny", "activate"}, !.maxSels = 1]
OneOperatorDenies == [Base EXCEPT !.evid = Passed({"p1", "p2"})]
PluginOperator == [Base EXCEPT !.ops = {"install", "deny_plugin", "remove"}, !.edits = {"plugin"},
                               !.maxFaults = 1]
PluginOperators == [PluginOperator EXCEPT !.clis = {"a", "b"}, !.harness = FALSE, !.maxFaults = 0]

PluginElsewhere == [PluginOperator EXCEPT !.inside = FALSE, !.maxActs = 1, !.maxFaults = 0]

MCScopes == {PluginElsewhere, AuthorAndReview, AuthorAndFaults, ReviewAndFaults, OneOperator,
             LongHistory, OneOperatorDenies, TwoOperators, PluginOperator, PluginOperators}
=============================================================================
