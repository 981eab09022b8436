-------------------------- MODULE MCRemoteGateway --------------------------
EXTENDS RemoteGateway

MCDevices == {"d1", "d2"}
MCConns == {"c1", "c2"}
Full == {"observe", "control"}
MCScopeSets == {Full, {"confirm"}}

(* two paired devices and an open code; or a new Host                      *)
MCLoaded ==
  { [codes |-> 0, dev |-> [d \in MCDevices |-> "active"], scopes |-> [d \in MCDevices |-> Full]],
    [codes |-> 1, dev |-> [d1 |-> "active", d2 |-> "none"], scopes |-> [d1 |-> Full, d2 |-> {}]] }
=============================================================================
