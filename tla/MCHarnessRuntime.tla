-------------------------- MODULE MCHarnessRuntime --------------------------
EXTENDS HarnessRuntime

MCInit == /\ Init
          /\ scope \in {{"plugins"}, {"policies", "children"}}
          /\ "children" \in scope => assembly # Tools

MCSpec == MCInit /\ [][Next]_vars
=============================================================================
